---- MODULE Spec2Model ----
(***************************************************************************)
(* A model of the ownership core of cppsalt: cslt::shared_ptr and          *)
(* cslt::unique_ptr (include/memory.hpp) and cslt::vector                  *)
(* (include/vec.hpp).  Heap objects are numbered in allocation order; a    *)
(* pointer is the number of the object it points to, Null is 0.  Every     *)
(* `delete` is counted, so a double free and a leak are both visible.      *)
(***************************************************************************)
EXTENDS Integers, Sequences, FiniteSets, TLC

VARIABLES sbox, sobj, scnt, ubox, uobj, heap, vec, appends, abox, strs, ub, excs, prs,
          vcopy, last

vars == <<sbox, sobj, scnt, ubox, uobj, heap, vec, appends, abox, strs, ub, excs, prs,
          vcopy, last>>

\* ------------------------------------------------------------------------
\* Bounds of the model
\* ------------------------------------------------------------------------
\* number of smart-pointer variables (boxes) a client program declares
NumBoxes == 3
\* number of `new T` expressions a client program evaluates
MaxObjs == 2

\* largest capacity a vector is grown or reserved to
MaxCap == 4
\* element values are 1..MaxVal
MaxVal == 2
\* longest initializer list a vector is constructed from
MaxInit == 2
\* number of appends of the append-only client
MaxAppends == 9

\* number of array_ptr variables, and of String variables, a client declares
NumBufs == 2
\* largest capacity an array_ptr is constructed, reallocated or reset to
MaxLen == 2
\* number of `new T[n]` expressions the array_ptr and String clients evaluate
MaxArrs == 3
\* longest C string a String is constructed from
MaxChars == 2

Null == 0
Boxes == 1..NumBoxes
Values == 1..MaxVal
Bufs == 1..NumBufs

\* ------------------------------------------------------------------------
\* cslt::swap (util.hpp): temp = a; a = b; b = temp
\* ------------------------------------------------------------------------
swap_no_temp(a, b) == <<b, b>>
swap(a, b) ==
    LET temp == a
        a1 == b
        b1 == temp
    IN <<a1, b1>>

\* ========================================================================
\* shared_ptr
\*   sbox[b] : the box (variable) b: live (constructed, not yet destroyed),
\*             ptr and counter, the two private members
\*   sobj[o] : number of times `delete` ran on the T object o
\*   scnt[c] : the heap-allocated unsigned c: its value and the number of
\*             times `delete` ran on it
\* A shared state S is the record [box, obj, cnt].
\* ========================================================================
DeadSBox == [live |-> FALSE, ptr |-> Null, counter |-> Null]

SState == [box |-> sbox, obj |-> sobj, cnt |-> scnt]

\* `new T(...)`: the next object number; the object has not been deleted
NewObj(S) == [S EXCEPT !.obj = Append(@, 0)]

\* --(*counter)
DecCounter(cnt, c) == [cnt EXCEPT ![c].val = @ - 1]

\* (*counter)++
IncCounter_skip(cnt, c) == cnt
IncCounter(cnt, c) == [cnt EXCEPT ![c].val = @ + 1]

\* the test of release(): counter && --(*counter) == 0, on the decremented store
LastOwner_always(cnt, c) == TRUE
LastOwner(cnt, c) == cnt[c].val = 0

\* shared_ptr::release()
release(S, b) ==
    LET c == S.box[b].counter
        p == S.box[b].ptr
        dec == IF c # Null THEN DecCounter(S.cnt, c) ELSE S.cnt
        zero == c # Null /\ LastOwner(dec, c)
    IN [box |-> [S.box EXCEPT ![b].ptr = Null, ![b].counter = Null],
        obj |-> IF zero /\ p # Null THEN [S.obj EXCEPT ![p] = @ + 1] ELSE S.obj,
        cnt |-> IF zero THEN [dec EXCEPT ![c].freed = @ + 1] ELSE dec]

\* ptr(p), counter(p ? new unsigned(1) : nullptr)
adopt_counter_always(S, b, p) ==
    [S EXCEPT !.box[b].ptr = p,
              !.box[b].counter = Len(S.cnt) + 1,
              !.cnt = Append(@, [val |-> 1, freed |-> 0])]
adopt(S, b, p) ==
    IF p # Null
    THEN [S EXCEPT !.box[b].ptr = p,
                   !.box[b].counter = Len(S.cnt) + 1,
                   !.cnt = Append(@, [val |-> 1, freed |-> 0])]
    ELSE [S EXCEPT !.box[b].ptr = Null, !.box[b].counter = Null]

\* explicit shared_ptr(T* p = nullptr); p is nullptr or a fresh `new T`
shared_ptr_ctor(S, b, fresh) ==
    LET S0 == [S EXCEPT !.box[b].live = TRUE]
    IN IF fresh THEN adopt(NewObj(S0), b, Len(S0.obj) + 1) ELSE adopt(S0, b, Null)

\* ~shared_ptr()
shared_ptr_dtor(S, b) == [release(S, b) EXCEPT !.box[b].live = FALSE]

\* shared_ptr(const shared_ptr& other)
shared_ptr_copy_ctor(S, a, b) ==
    LET c == S.box[b].counter
        S0 == [S EXCEPT !.box[a] = [live |-> TRUE, ptr |-> S.box[b].ptr, counter |-> c]]
    IN IF c # Null THEN [S0 EXCEPT !.cnt = IncCounter(@, c)] ELSE S0

\* shared_ptr& operator=(const shared_ptr& other)
shared_ptr_copy_assign_noguard(S, a, b) ==
    LET S1 == release(S, a)
        c == S1.box[b].counter
        S2 == [S1 EXCEPT !.box[a].ptr = S1.box[b].ptr, !.box[a].counter = c]
    IN IF c # Null THEN [S2 EXCEPT !.cnt = IncCounter(@, c)] ELSE S2
shared_ptr_copy_assign(S, a, b) ==
    IF a # b
    THEN LET S1 == release(S, a)
             c == S1.box[b].counter
             S2 == [S1 EXCEPT !.box[a].ptr = S1.box[b].ptr, !.box[a].counter = c]
         IN IF c # Null THEN [S2 EXCEPT !.cnt = IncCounter(@, c)] ELSE S2
    ELSE S

\* shared_ptr(shared_ptr&& other) noexcept
shared_ptr_move_ctor(S, a, b) ==
    [S EXCEPT !.box[a] = [live |-> TRUE, ptr |-> S.box[b].ptr, counter |-> S.box[b].counter],
              !.box[b].ptr = Null,
              !.box[b].counter = Null]

\* shared_ptr& operator=(shared_ptr&& other) noexcept
shared_ptr_move_assign_norelease(S, a, b) ==
    IF a # b
    THEN [S EXCEPT !.box[a].ptr = S.box[b].ptr,
                   !.box[a].counter = S.box[b].counter,
                   !.box[b].ptr = Null,
                   !.box[b].counter = Null]
    ELSE S
shared_ptr_move_assign(S, a, b) ==
    IF a # b
    THEN LET S1 == release(S, a)
         IN [S1 EXCEPT !.box[a].ptr = S1.box[b].ptr,
                       !.box[a].counter = S1.box[b].counter,
                       !.box[b].ptr = Null,
                       !.box[b].counter = Null]
    ELSE S

\* void reset(T* p = nullptr); p is Null, the held pointer, or a fresh `new T`
shared_ptr_reset_noguard(S, b, p) == adopt(release(S, b), b, p)
shared_ptr_reset(S, b, p) ==
    IF S.box[b].ptr # p THEN adopt(release(S, b), b, p) ELSE S

\* void swap(shared_ptr& other) noexcept
shared_ptr_swap_ptr_only(S, a, b) ==
    LET ps == swap(S.box[a].ptr, S.box[b].ptr)
        S1 == [S EXCEPT !.box[a].ptr = ps[1]]
    IN [S1 EXCEPT !.box[b].ptr = ps[2]]
shared_ptr_swap(S, a, b) ==
    LET ps == swap(S.box[a].ptr, S.box[b].ptr)
        S1 == [S EXCEPT !.box[a].ptr = ps[1]]
        S2 == [S1 EXCEPT !.box[b].ptr = ps[2]]
        cs == swap(S2.box[a].counter, S2.box[b].counter)
        S3 == [S2 EXCEPT !.box[a].counter = cs[1]]
    IN [S3 EXCEPT !.box[b].counter = cs[2]]

\* ------------------------------------------------------------------------
\* The client program of the shared_ptr boxes: one action per operation.
\* `last` records the operation that ran last, its operands and the state
\* it started from.
\* ------------------------------------------------------------------------
EmptyVec == [data |-> Null, len |-> 0, alloc |-> 0]

NoUnique ==
    /\ ubox = [b \in Boxes |-> [live |-> FALSE, ptr |-> Null]]
    /\ uobj = <<>>

NoShared ==
    /\ sbox = [b \in Boxes |-> DeadSBox]
    /\ sobj = <<>>
    /\ scnt = <<>>

NoVector ==
    /\ heap = <<>>
    /\ vec = EmptyVec
    /\ appends = 0

\* the temporary array_ptr that cslt::move returns by value
Tmp == 0

DeadBuf == [live |-> FALSE, ptr |-> Null, len |-> 0]

DeadStr == [live |-> FALSE, len |-> 0, alloc |-> 0]

NoBuffers ==
    /\ abox = [b \in {Tmp} \cup Bufs |-> DeadBuf]
    /\ strs = [s \in Bufs |-> DeadStr]
    /\ ub = FALSE

\* no cslt::exception object has been constructed
DeadExc == [live |-> FALSE, kind |-> "", message |-> Null]

NoExceptions == excs = [e \in Bufs |-> DeadExc]

\* no pair has been constructed
NoPairs == prs = <<>>

\* the vector has not been copied and has not been destroyed: vcopy is the
\* second vector of a client (live: constructed and not destroyed, gone:
\* destroyed, vec: its members) and whether the first one was destroyed
NoCopy == vcopy = [live |-> FALSE, gone |-> FALSE, destroyed |-> FALSE, vec |-> EmptyVec]

SharedStep(S, op, a, b) ==
    /\ sbox' = S.box
    /\ sobj' = S.obj
    /\ scnt' = S.cnt
    /\ last' = [op |-> op, a |-> a, b |-> b, pre |-> SState]
    /\ UNCHANGED <<ubox, uobj, heap, vec, appends, abox, strs, ub, excs, prs, vcopy>>

SharedConstruct(b, fresh) ==
    /\ ~sbox[b].live
    /\ fresh => Len(sobj) < MaxObjs
    /\ SharedStep(shared_ptr_ctor(SState, b, fresh), "ctor", b, b)

SharedDestroy(b) ==
    /\ sbox[b].live
    /\ SharedStep(shared_ptr_dtor(SState, b), "dtor", b, b)

SharedCopyConstruct(a, b) ==
    /\ ~sbox[a].live
    /\ sbox[b].live
    /\ SharedStep(shared_ptr_copy_ctor(SState, a, b), "copy_ctor", a, b)

SharedCopyAssign(a, b) ==
    /\ sbox[a].live
    /\ sbox[b].live
    /\ SharedStep(shared_ptr_copy_assign(SState, a, b), "copy_assign", a, b)

SharedMoveConstruct(a, b) ==
    /\ ~sbox[a].live
    /\ sbox[b].live
    /\ SharedStep(shared_ptr_move_ctor(SState, a, b), "move_ctor", a, b)

SharedMoveAssign(a, b) ==
    /\ sbox[a].live
    /\ sbox[b].live
    /\ SharedStep(shared_ptr_move_assign(SState, a, b), "move_assign", a, b)

\* reset(), reset(get()); last.b is the pointer handed over
SharedReset(b) ==
    /\ sbox[b].live
    /\ \E p \in {Null, sbox[b].ptr} :
          SharedStep(shared_ptr_reset(SState, b, p), "reset", b, p)

\* reset(new T)
SharedResetFresh(b) ==
    /\ sbox[b].live
    /\ Len(sobj) < MaxObjs
    /\ SharedStep(shared_ptr_reset(NewObj(SState), b, Len(sobj) + 1), "reset_fresh", b,
                  Len(sobj) + 1)

SharedSwap(a, b) ==
    /\ sbox[a].live
    /\ sbox[b].live
    /\ SharedStep(shared_ptr_swap(SState, a, b), "swap", a, b)

InitShared ==
    /\ NoShared
    /\ NoUnique
    /\ NoVector
    /\ NoBuffers
    /\ NoExceptions
    /\ NoPairs
    /\ NoCopy
    /\ last = [op |-> "init", a |-> Null, b |-> Null, pre |-> SState]

NextShared ==
    \/ \E b \in Boxes, fresh \in BOOLEAN : SharedConstruct(b, fresh)
    \/ \E b \in Boxes : SharedDestroy(b)
    \/ \E a, b \in Boxes : SharedCopyConstruct(a, b)
    \/ \E a, b \in Boxes : SharedCopyAssign(a, b)
    \/ \E a, b \in Boxes : SharedMoveConstruct(a, b)
    \/ \E a, b \in Boxes : SharedMoveAssign(a, b)
    \/ \E b \in Boxes : SharedReset(b)
    \/ \E b \in Boxes : SharedResetFresh(b)
    \/ \E a, b \in Boxes : SharedSwap(a, b)

SpecShared == InitShared /\ [][NextShared]_vars

\* ------------------------------------------------------------------------
\* Claims about shared_ptr
\* ------------------------------------------------------------------------
LiveSBoxes == {b \in Boxes : sbox[b].live}

\* the live boxes whose (ptr, counter) members are the pair (o, c)
Referencing(o, c) == {b \in LiveSBoxes : sbox[b].ptr = o /\ sbox[b].counter = c}

\* the (object, counter) pairs ever created: pair k is object k with counter k
\* only as long as each `new T` is handed to one box, so pairs are read off
\* the boxes and the heap instead
LiveCounters == {c \in 1..Len(scnt) : scnt[c].freed = 0}

\* C1: the counter of every live (object, counter) pair equals the number of
\* live boxes that reference that pair, after any sequence of operations.
C1_CounterEqualsOwners ==
    /\ \A c \in LiveCounters :
          scnt[c].val = Cardinality({b \in LiveSBoxes : sbox[b].counter = c})
    /\ \A b \in LiveSBoxes :
          sbox[b].counter # Null =>
             /\ sbox[b].counter \in LiveCounters
             /\ scnt[sbox[b].counter].val =
                   Cardinality(Referencing(sbox[b].ptr, sbox[b].counter))

\* two boxes share one pair whose counter is 2, after a copy
C1_Witness ==
    /\ last.op \in {"copy_ctor", "copy_assign"}
    /\ \E c \in LiveCounters :
          /\ scnt[c].val = 2
          /\ Cardinality({b \in LiveSBoxes : sbox[b].counter = c}) = 2

\* C2: an object and its counter are freed exactly once, at the step where
\* the last box referencing them is destroyed or reset, and never while a
\* live box still references them.
C2_FreedOnceAtLastOwner ==
    /\ \A o \in 1..Len(sobj) :
          sobj[o] = IF \E b \in LiveSBoxes : sbox[b].ptr = o THEN 0 ELSE 1
    /\ \A c \in 1..Len(scnt) :
          scnt[c].freed = IF \E b \in LiveSBoxes : sbox[b].counter = c THEN 0 ELSE 1
    /\ \A o \in 1..Len(sobj) :
          (last.op \in {"dtor", "reset", "reset_fresh"} /\ sobj[o] = 1 /\ last.pre.obj[o] = 0)
             => /\ last.pre.box[last.a].ptr = o
                /\ \A b \in Boxes \ {last.a} :
                      ~(last.pre.box[b].live /\ last.pre.box[b].ptr = o)

\* an object was just freed by the destruction or reset of its last owner,
\* while every other box is still live (they gave the object up earlier or
\* never held it)
C2_Witness ==
    /\ last.op \in {"dtor", "reset"}
    /\ \E o \in 1..Len(sobj) :
          /\ sobj[o] = 1
          /\ last.pre.obj[o] = 0
          /\ last.pre.cnt[last.pre.box[last.a].counter].val = 1
          /\ \A b \in Boxes : last.pre.box[b].live

\* explicit operator bool() const
shared_ptr_bool(S, b) == S.box[b].ptr # Null

\* the pair (object p, counter c) lost one reference since the state P: the
\* counter is one lower, and counter and object are freed iff it is zero
ReleasedOnce(P, p, c) ==
    /\ scnt[c].val = P.cnt[c].val - 1
    /\ scnt[c].freed = IF scnt[c].val = 0 THEN 1 ELSE 0
    /\ p # Null => sobj[p] = IF scnt[c].val = 0 THEN 1 ELSE 0

\* no counter was allocated since the state P, and the counters and objects
\* other than those named are as they were
OthersUntouched(P, objs, cnts) ==
    /\ Len(scnt) = Len(P.cnt)
    /\ Len(sobj) = Len(P.obj)
    /\ \A c \in 1..Len(P.cnt) : c \notin cnts => scnt[c] = P.cnt[c]
    /\ \A o \in 1..Len(P.obj) : o \notin objs => sobj[o] = P.obj[o]
    /\ \A x \in Boxes : x \notin {last.a, last.b} => sbox[x] = P.box[x]

\* C19: copy-assigning box b to box a changes nothing when a and b are the
\* same box; otherwise the pair a held loses one reference (freed iff its
\* counter reaches zero), a references b's pair, whose counter is one
\* higher, and b is as it was; when a and b already referenced the same
\* pair its counter ends as it began and the object is not freed.
C19_CopyAssign ==
    last.op = "copy_assign" =>
        LET P == last.pre
            a == last.a
            b == last.b
            pa == P.box[a].ptr
            ca == P.box[a].counter
            pb == P.box[b].ptr
            cb == P.box[b].counter
        IN /\ a = b => SState = P
           /\ a # b =>
                 /\ sbox[b] = P.box[b]
                 /\ sbox[a] = [live |-> TRUE, ptr |-> pb, counter |-> cb]
                 /\ OthersUntouched(P, {pa, pb}, {ca, cb})
                 /\ (ca # Null /\ ca # cb) => ReleasedOnce(P, pa, ca)
                 /\ (cb # Null /\ ca # cb) =>
                       /\ scnt[cb] = [val |-> P.cnt[cb].val + 1, freed |-> 0]
                       /\ sobj[pb] = 0
                 /\ (cb # Null /\ ca = cb) =>
                       /\ scnt[cb] = P.cnt[cb]
                       /\ sobj[pb] = 0

\* box a has been copy-assigned from a distinct box b that referenced the
\* same pair; the counter is 2 as before
C19_Witness ==
    /\ last.op = "copy_assign"
    /\ last.a # last.b
    /\ last.pre.box[last.a].counter # Null
    /\ last.pre.box[last.a].counter = last.pre.box[last.b].counter
    /\ scnt[sbox[last.a].counter].val = 2

\* C20: move-constructing or move-assigning box b into a distinct box a
\* leaves a with the pair b held and b empty, and does not count a new
\* reference: the counter of that pair is as the release of a's old
\* reference left it.  In the assign case the pair a held loses one
\* reference first (freed iff its counter reaches zero).
C20_MoveTransfers ==
    (last.op \in {"move_ctor", "move_assign"} /\ last.a # last.b) =>
        LET P == last.pre
            a == last.a
            b == last.b
            pa == P.box[a].ptr
            ca == P.box[a].counter
            pb == P.box[b].ptr
            cb == P.box[b].counter
        IN /\ sbox[a] = [live |-> TRUE, ptr |-> pb, counter |-> cb]
           /\ sbox[b] = [live |-> TRUE, ptr |-> Null, counter |-> Null]
           /\ ~shared_ptr_bool(SState, b)
           /\ OthersUntouched(P, {pa, pb}, {ca, cb})
           /\ (ca # Null /\ ca # cb) => ReleasedOnce(P, pa, ca)
           /\ (cb # Null /\ ca # cb) =>
                 /\ scnt[cb] = P.cnt[cb]
                 /\ sobj[pb] = 0
           /\ (cb # Null /\ ca = cb) =>
                 /\ scnt[cb] = [val |-> P.cnt[cb].val - 1, freed |-> 0]
                 /\ scnt[cb].val >= 1
                 /\ sobj[pb] = 0

\* box a, the only owner of one object, has been move-assigned from box b,
\* which held another object: a's old object is freed, b's pair is a's
C20_Witness ==
    /\ last.op = "move_assign"
    /\ last.a # last.b
    /\ last.pre.box[last.a].counter # Null
    /\ last.pre.box[last.b].counter # Null
    /\ last.pre.box[last.a].counter # last.pre.box[last.b].counter
    /\ last.pre.cnt[last.pre.box[last.a].counter].val = 1
    /\ sobj[last.pre.box[last.a].ptr] = 1
    /\ sbox[last.a].counter = last.pre.box[last.b].counter

\* C21: reset(p) with p the object the box holds changes nothing; otherwise
\* the pair the box held loses one reference (object and counter freed iff
\* the counter reaches zero, the other owners as they were) and the box
\* holds p with a newly allocated counter of 1, or nothing and no counter
\* when p is null.
C21_Reset ==
    last.op \in {"reset", "reset_fresh"} =>
        LET P == last.pre
            a == last.a
            p == last.b
            pa == P.box[a].ptr
            ca == P.box[a].counter
        IN /\ (last.op = "reset" /\ p = pa) => SState = P
           /\ p # pa =>
                 /\ \A x \in Boxes \ {a} : sbox[x] = P.box[x]
                 /\ \A c \in 1..Len(P.cnt) : c # ca => scnt[c] = P.cnt[c]
                 /\ \A o \in 1..Len(P.obj) : o # pa => sobj[o] = P.obj[o]
                 /\ ca # Null => ReleasedOnce(P, pa, ca)
                 /\ p = Null =>
                       /\ sbox[a] = [live |-> TRUE, ptr |-> Null, counter |-> Null]
                       /\ Len(scnt) = Len(P.cnt)
                 /\ p # Null =>
                       /\ sbox[a] = [live |-> TRUE, ptr |-> p, counter |-> Len(P.cnt) + 1]
                       /\ Len(scnt) = Len(P.cnt) + 1
                       /\ scnt[Len(scnt)] = [val |-> 1, freed |-> 0]
                       /\ sobj[p] = 0

\* a box that shared its pair with another box has been reset to a fresh
\* object: the old pair lives on with counter 1, the box has a counter of 1
C21_Witness ==
    /\ last.op = "reset_fresh"
    /\ last.pre.box[last.a].counter # Null
    /\ last.pre.cnt[last.pre.box[last.a].counter].val = 2
    /\ scnt[last.pre.box[last.a].counter] = [val |-> 1, freed |-> 0]
    /\ sbox[last.a].ptr = last.b
    /\ scnt[sbox[last.a].counter].val = 1

\* C31: swap exchanges the (object, counter) pairs of the two boxes, changes
\* no other box, no counter value and no delete count; a second swap of the
\* same boxes gives back the boxes as they were, and a swap of a box with
\* itself changes nothing.
C31_Swap ==
    last.op = "swap" =>
        LET P == last.pre
            a == last.a
            b == last.b
        IN /\ sbox[a].ptr = P.box[b].ptr
           /\ sbox[a].counter = P.box[b].counter
           /\ sbox[b].ptr = P.box[a].ptr
           /\ sbox[b].counter = P.box[a].counter
           /\ \A c \in Boxes : sbox[c].live = P.box[c].live
           /\ \A c \in Boxes \ {a, b} : sbox[c] = P.box[c]
           /\ scnt = P.cnt
           /\ sobj = P.obj
           /\ shared_ptr_swap(SState, a, b) = P
           /\ a = b => SState = P

\* two boxes owning different objects have been swapped
C31_Witness ==
    /\ last.op = "swap"
    /\ last.a # last.b
    /\ last.pre.box[last.a].ptr # Null
    /\ last.pre.box[last.b].ptr # Null
    /\ last.pre.box[last.a].ptr # last.pre.box[last.b].ptr
    /\ sbox[last.a].ptr = last.pre.box[last.b].ptr
    /\ sbox[last.a].counter = last.pre.box[last.b].counter
    /\ sbox[last.b].counter = last.pre.box[last.a].counter

\* C35: a live box has a null object pointer exactly when it has a null
\* counter pointer; the counter of every live box is at least 1 and not
\* freed; and destroying an empty box, resetting an empty box to empty or
\* move-assigning over an empty box changes no counter value and no delete
\* count.
C35_EmptyBoxIsInert ==
    /\ \A b \in LiveSBoxes : (sbox[b].ptr = Null) <=> (sbox[b].counter = Null)
    /\ \A b \in LiveSBoxes :
          sbox[b].counter # Null => /\ scnt[sbox[b].counter].val >= 1
                                    /\ scnt[sbox[b].counter].freed = 0
    /\ ( /\ \/ last.op \in {"dtor", "move_assign"}
            \/ last.op = "reset" /\ last.b = Null
         /\ ~shared_ptr_bool(last.pre, last.a)
         /\ last.pre.box[last.a].counter = Null )
       => /\ scnt = last.pre.cnt
          /\ sobj = last.pre.obj

\* an empty box was destroyed while another box owned an object
C35_Witness ==
    /\ last.op = "dtor"
    /\ last.pre.box[last.a].live
    /\ last.pre.box[last.a].ptr = Null
    /\ last.pre.box[last.a].counter = Null
    /\ \E b \in LiveSBoxes : sbox[b].counter # Null /\ scnt[sbox[b].counter].val = 1
    /\ scnt = last.pre.cnt
    /\ sobj = last.pre.obj

\* ========================================================================
\* unique_ptr
\*   ubox[b] : the box b: live, and ptr, its one private member
\*   uobj[o] : the T object o: freed, the number of times `delete` ran on
\*             it, and released, whether release() handed it to the caller
\* A unique state U is the record [box, obj].
\* ========================================================================
UState == [box |-> ubox, obj |-> uobj]

\* `new T(...)`
NewUObj(U) == [U EXCEPT !.obj = Append(@, [freed |-> 0, released |-> FALSE])]

\* `delete p`: nothing for nullptr
delete(obj, p) == IF p # Null THEN [obj EXCEPT ![p].freed = @ + 1] ELSE obj

\* explicit unique_ptr(T *p) : ptr(p)
unique_ptr_ctor(U, b, p) == [U EXCEPT !.box[b] = [live |-> TRUE, ptr |-> p]]

\* ~unique_ptr()
unique_ptr_dtor(U, b) ==
    [U EXCEPT !.obj = delete(@, U.box[b].ptr), !.box[b].live = FALSE]

\* unique_ptr(unique_ptr&& move) noexcept : ptr(move.ptr) { move.ptr = nullptr; }
unique_ptr_move_ctor_keep(U, a, b) ==
    [U EXCEPT !.box[a] = [live |-> TRUE, ptr |-> U.box[b].ptr]]
unique_ptr_move_ctor(U, a, b) ==
    [U EXCEPT !.box[a] = [live |-> TRUE, ptr |-> U.box[b].ptr],
              !.box[b].ptr = Null]

\* unique_ptr& operator=(unique_ptr&& move) noexcept:
\*   delete ptr; ptr = nullptr; move.ptr = nullptr;
unique_ptr_move_assign_noguard(U, a, b) ==
    [U EXCEPT !.obj = delete(@, U.box[a].ptr), !.box[a].ptr = Null, !.box[b].ptr = Null]
unique_ptr_move_assign(U, a, b) ==
    IF a # b
    THEN [U EXCEPT !.obj = delete(@, U.box[a].ptr),
                   !.box[a].ptr = Null,
                   !.box[b].ptr = Null]
    ELSE U

\* T* temp = ptr; ... return temp;
release_temp(U, b) == U.box[b].ptr

\* T* release(): the caller now owns the object
unique_ptr_release_deletes(U, b) ==
    [U EXCEPT !.box[b].ptr = Null, !.obj = delete(@, release_temp(U, b))]
unique_ptr_release(U, b) ==
    LET temp == release_temp(U, b)
    IN [U EXCEPT !.box[b].ptr = Null,
                 !.obj = IF temp # Null THEN [@ EXCEPT ![temp].released = TRUE] ELSE @]

\* void reset(T* p = nullptr): temp = ptr; ptr = p; delete temp;
unique_ptr_reset_keeps(U, b, p) == [U EXCEPT !.box[b].ptr = p]
unique_ptr_reset(U, b, p) ==
    LET temp == U.box[b].ptr
        U1 == [U EXCEPT !.box[b].ptr = p]
    IN [U1 EXCEPT !.obj = delete(@, temp)]

\* explicit operator bool() const
unique_ptr_bool(U, b) == U.box[b].ptr # Null

\* ------------------------------------------------------------------------
\* The client program of the unique_ptr boxes.  A raw pointer handed to a
\* box is nullptr or a fresh `new T`.
\* ------------------------------------------------------------------------
UniqueStep(U, op, a, b) ==
    /\ ubox' = U.box
    /\ uobj' = U.obj
    /\ last' = [op |-> op, a |-> a, b |-> b, pre |-> UState]
    /\ UNCHANGED <<sbox, sobj, scnt, heap, vec, appends, abox, strs, ub, excs, prs, vcopy>>

UniqueConstruct(b, fresh) ==
    /\ ~ubox[b].live
    /\ fresh => Len(uobj) < MaxObjs
    /\ IF fresh
       THEN UniqueStep(unique_ptr_ctor(NewUObj(UState), b, Len(uobj) + 1), "ctor", b, b)
       ELSE UniqueStep(unique_ptr_ctor(UState, b, Null), "ctor", b, b)

UniqueDestroy(b) ==
    /\ ubox[b].live
    /\ UniqueStep(unique_ptr_dtor(UState, b), "dtor", b, b)

UniqueMoveConstruct(a, b) ==
    /\ ~ubox[a].live
    /\ ubox[b].live
    /\ UniqueStep(unique_ptr_move_ctor(UState, a, b), "move_ctor", a, b)

UniqueMoveAssign(a, b) ==
    /\ ubox[a].live
    /\ ubox[b].live
    /\ UniqueStep(unique_ptr_move_assign(UState, a, b), "move_assign", a, b)

\* p = box.release(); last.b is the pointer handed back
UniqueRelease(b) ==
    /\ ubox[b].live
    /\ UniqueStep(unique_ptr_release(UState, b), "release", b, release_temp(UState, b))

\* reset(), reset(new T); last.b is the pointer handed over
UniqueReset(b, fresh) ==
    /\ ubox[b].live
    /\ fresh => Len(uobj) < MaxObjs
    /\ IF fresh
       THEN UniqueStep(unique_ptr_reset(NewUObj(UState), b, Len(uobj) + 1), "reset", b,
                       Len(uobj) + 1)
       ELSE UniqueStep(unique_ptr_reset(UState, b, Null), "reset", b, Null)

InitUnique ==
    /\ NoShared
    /\ NoUnique
    /\ NoVector
    /\ NoBuffers
    /\ NoExceptions
    /\ NoPairs
    /\ NoCopy
    /\ last = [op |-> "init", a |-> Null, b |-> Null, pre |-> UState]

NextUnique ==
    \/ \E b \in Boxes, fresh \in BOOLEAN : UniqueConstruct(b, fresh)
    \/ \E b \in Boxes : UniqueDestroy(b)
    \/ \E a, b \in Boxes : UniqueMoveConstruct(a, b)
    \/ \E a, b \in Boxes : UniqueMoveAssign(a, b)
    \/ \E b \in Boxes : UniqueRelease(b)
    \/ \E b \in Boxes, fresh \in BOOLEAN : UniqueReset(b, fresh)

SpecUnique == InitUnique /\ [][NextUnique]_vars

\* the client that also resets a box to the pointer the box holds:
\* box.reset(box.get()).  A second delete of an object is undefined
\* behaviour; the client does not alias an object that is already freed.
UniqueResetSelf(b) ==
    /\ ubox[b].live
    /\ ubox[b].ptr # Null
    /\ uobj[ubox[b].ptr].freed = 0
    /\ UniqueStep(unique_ptr_reset(UState, b, ubox[b].ptr), "reset_self", b, ubox[b].ptr)

InitUniqueAlias == InitUnique

NextUniqueAlias ==
    \/ \E b \in Boxes, fresh \in BOOLEAN : UniqueConstruct(b, fresh)
    \/ \E b \in Boxes : UniqueDestroy(b)
    \/ \E a, b \in Boxes : UniqueMoveConstruct(a, b)
    \/ \E a, b \in Boxes : UniqueMoveAssign(a, b)
    \/ \E b \in Boxes : UniqueRelease(b)
    \/ \E b \in Boxes, fresh \in BOOLEAN : UniqueReset(b, fresh)
    \/ \E b \in Boxes : UniqueResetSelf(b)

SpecUniqueAlias == InitUniqueAlias /\ [][NextUniqueAlias]_vars

\* ------------------------------------------------------------------------
\* Claims about unique_ptr
\* ------------------------------------------------------------------------
LiveUBoxes == {b \in Boxes : ubox[b].live}

\* the live boxes that report non-empty for the allocation o
NonEmptyFor(o) == {b \in LiveUBoxes : unique_ptr_bool(UState, b) /\ ubox[b].ptr = o}

\* C3: at most one live box reports non-empty for a given allocation at any
\* time, and after a move-construct or move-assign between distinct boxes the
\* source box reports empty.
C3_ExclusiveOwnership ==
    /\ \A o \in 1..Len(uobj) : Cardinality(NonEmptyFor(o)) <= 1
    /\ (last.op \in {"move_ctor", "move_assign"} /\ last.a # last.b)
          => ~unique_ptr_bool(UState, last.b)

\* a non-empty box was just moved from by the move constructor
C3_Witness ==
    /\ last.op = "move_ctor"
    /\ last.pre.box[last.b].ptr # Null
    /\ ~unique_ptr_bool(UState, last.b)
    /\ Cardinality(NonEmptyFor(last.pre.box[last.b].ptr)) = 1

\* C4: move-assigning box b into a distinct box a leaves a holding exactly
\* the object b held, b empty, and the object a held before freed.
C4_MoveAssignTransfers ==
    (last.op = "move_assign" /\ last.a # last.b) =>
        /\ ubox[last.a].ptr = last.pre.box[last.b].ptr
        /\ ubox[last.b].ptr = Null
        /\ last.pre.box[last.a].ptr # Null =>
              uobj[last.pre.box[last.a].ptr].freed = 1

\* C5: once every box has been destroyed, each object that was handed to a
\* box and not handed back by release() has been freed exactly once.
C5_NoLeakNoDoubleFree ==
    LiveUBoxes = {} =>
        \A o \in 1..Len(uobj) : ~uobj[o].released => uobj[o].freed = 1

\* C22: reset(p) with p other than the object the box holds frees that
\* object (if any) exactly once and leaves the box holding p; reset()
\* leaves the box empty; no other box or object changes.
C22_UniqueReset ==
    last.op = "reset" =>
        LET P == last.pre
            a == last.a
            p == last.b
            pa == P.box[a].ptr
        IN /\ ubox[a] = [live |-> TRUE, ptr |-> p]
           /\ \A x \in Boxes \ {a} : ubox[x] = P.box[x]
           /\ \A o \in 1..Len(P.obj) : o # pa => uobj[o] = P.obj[o]
           /\ p # Null => uobj[p] = [freed |-> 0, released |-> FALSE]
           /\ (pa # Null /\ pa # p) =>
                 /\ P.obj[pa].freed = 0
                 /\ uobj[pa].freed = 1

\* a box holding an object has been reset to a fresh object: the old object
\* is freed, the box holds the new one
C22_Witness ==
    /\ last.op = "reset"
    /\ last.b # Null
    /\ last.pre.box[last.a].ptr # Null
    /\ uobj[last.pre.box[last.a].ptr].freed = 1
    /\ ubox[last.a].ptr = last.b

\* C23: release() hands back the pointer the box held, leaves the box
\* empty and frees nothing; destroying an empty box frees nothing; an
\* object handed back by release() is never freed by a unique_ptr.
C23_ReleaseFreesNothing ==
    /\ last.op = "release" =>
          /\ last.b = last.pre.box[last.a].ptr
          /\ ubox[last.a] = [live |-> TRUE, ptr |-> Null]
          /\ ~unique_ptr_bool(UState, last.a)
          /\ \A x \in Boxes \ {last.a} : ubox[x] = last.pre.box[x]
          /\ Len(uobj) = Len(last.pre.obj)
          /\ \A o \in 1..Len(uobj) : uobj[o].freed = last.pre.obj[o].freed
          /\ last.b # Null => uobj[last.b].released
    /\ (last.op = "dtor" /\ last.pre.box[last.a].ptr = Null) => uobj = last.pre.obj
    /\ \A o \in 1..Len(uobj) : uobj[o].released => uobj[o].freed = 0

\* a box that gave up its object through release() has been destroyed; the
\* object has not been freed
C23_Witness ==
    /\ last.op = "dtor"
    /\ last.pre.box[last.a].ptr = Null
    /\ \E o \in 1..Len(uobj) : uobj[o].released /\ uobj[o].freed = 0

\* C37: a live unique_ptr is empty or holds an object that has not been
\* freed, also after reset(p) with p the object the box holds; and no
\* object is freed twice.
C37_NeverHoldsFreed ==
    /\ \A b \in LiveUBoxes :
          unique_ptr_bool(UState, b) => uobj[ubox[b].ptr].freed = 0
    /\ \A o \in 1..Len(uobj) : uobj[o].freed <= 1

\* ========================================================================
\* vector
\*   heap[p] : the array `new T[n]` numbered p: its slots (slot i of the
\*             code is slots[i + 1]) and freed, the number of times
\*             `delete[]` ran on it; a deleted array has no slots left
\*   vec     : the members _data, _len, _alloc
\*   appends : the number of push_back(value) calls made so far
\* A vector state V is the record [heap, vec].
\* ========================================================================
\* the value of a slot of `new T[n]` that was never assigned
Uninit == 0

VState == [heap |-> heap, vec |-> vec]

NoHeap == [heap |-> <<>>, vec |-> EmptyVec]

\* new T[n]
new_array(h, n) == Append(h, [slots |-> [i \in 1..n |-> Uninit], freed |-> 0])

\* delete[] p
delete_array(h, p) == [h EXCEPT ![p] = [slots |-> <<>>, freed |-> @.freed + 1]]

\* std::copy(src, src + n, dst) and, for the element types modelled,
\* std::move(src, src + n, dst)
copy(src, n, dst) == [i \in 1..Len(dst) |-> IF i <= n THEN src[i] ELSE dst[i]]

\* _data[i] = value; i < _alloc in every reachable state (C6)
store(V, i, value) ==
    IF i + 1 \in DOMAIN V.heap[V.vec.data].slots
    THEN [V EXCEPT !.heap[V.vec.data].slots[i + 1] = value]
    ELSE V

\* T* newData = new T[n]; std::copy(_data, _data + _len, newData);
\* delete[] _data; _data = newData;
reallocate(V, n) ==
    LET h1 == new_array(V.heap, n)
        newData == Len(h1)
        h2 == [h1 EXCEPT ![newData].slots = copy(h1[V.vec.data].slots, V.vec.len, @)]
        h3 == delete_array(h2, V.vec.data)
    IN [V EXCEPT !.heap = h3, !.vec.data = newData]

\* (_alloc > 0) ? _alloc * 2 : 1
GrowCap_plus1(alloc) == alloc + 1
GrowCap_nofloor(alloc) == alloc * 2
GrowCap(alloc) == IF alloc > 0 THEN alloc * 2 ELSE 1

\* _alloc = ...; newData = new T[_alloc]; ...
grow(V) ==
    LET V1 == [V EXCEPT !.vec.alloc = GrowCap(@)]
    IN reallocate(V1, V1.vec.alloc)

\* vector() : _data(new T[1]), _alloc(1)
vector_default ==
    [heap |-> new_array(<<>>, 1), vec |-> [data |-> 1, len |-> 0, alloc |-> 1]]

\* vector(cslt::size_t buff) : _data(new T[buff]), _alloc(buff)
vector_buff_min1(buff) ==
    [heap |-> new_array(<<>>, IF buff > 1 THEN buff ELSE 1),
     vec |-> [data |-> 1, len |-> 0, alloc |-> IF buff > 1 THEN buff ELSE 1]]
vector_buff(buff) ==
    [heap |-> new_array(<<>>, buff), vec |-> [data |-> 1, len |-> 0, alloc |-> buff]]

\* vector(std::initializer_list<T> ilist)
vector_ilist(ilist) ==
    LET h1 == new_array(<<>>, Len(ilist))
    IN [heap |-> [h1 EXCEPT ![1].slots = copy(ilist, Len(ilist), @)],
        vec |-> [data |-> 1, len |-> Len(ilist), alloc |-> Len(ilist)]]

\* the growth test of push_back(value): _len >= _alloc
push_back_full_gt(len, alloc) == len > alloc
push_back_full(len, alloc) == len >= alloc

\* void push_back(const T& value)
vector_push_back(V, value) ==
    LET V1 == IF push_back_full(V.vec.len, V.vec.alloc) THEN grow(V) ELSE V
        V2 == store(V1, V1.vec.len, value)
    IN [V2 EXCEPT !.vec.len = @ + 1]

\* the bounds test of push_back(value, index): index > _len
index_out_of_bounds_late(index, len) == index > len + 1
index_out_of_bounds(index, len) == index > len

\* the growth test of push_back(value, index): _len + 1 > _alloc
push_back_at_full_late(len, alloc) == len > alloc
push_back_at_full(len, alloc) == len + 1 > alloc

\* for (i = _len; i > index; --i) _data[i] = _data[i - 1];
RECURSIVE shift_right(_, _, _)
shift_right(V, i, index) ==
    IF i > index
    THEN shift_right(store(V, i, V.heap[V.vec.data].slots[i]), i - 1, index)
    ELSE V

\* the same loop run upwards from index + 1 to _len, which overwrites
RECURSIVE shift_up(_, _, _)
shift_up(V, i, len) ==
    IF i <= len
    THEN shift_up(store(V, i, V.heap[V.vec.data].slots[i]), i + 1, len)
    ELSE V
shift_elements_up(V, index) == shift_up(V, index + 1, V.vec.len)
shift_elements(V, index) == shift_right(V, V.vec.len, index)

\* void push_back(const T& value, cslt::size_t index); the result is the new
\* state and whether cslt::out_of_range was thrown
vector_push_back_at(V, value, index) ==
    IF index_out_of_bounds(index, V.vec.len)
    THEN [V |-> V, threw |-> TRUE]
    ELSE LET V1 == IF push_back_at_full(V.vec.len, V.vec.alloc) THEN grow(V) ELSE V
             V2 == shift_elements(V1, index)
             V3 == store(V2, index, value)
         IN [V |-> [V3 EXCEPT !.vec.len = @ + 1], threw |-> FALSE]

\* void reserve(cslt::size_t buff)
vector_reserve_always(V, buff) == [reallocate(V, buff) EXCEPT !.vec.alloc = buff]
vector_reserve(V, buff) ==
    IF buff <= V.vec.alloc
    THEN V
    ELSE [reallocate(V, buff) EXCEPT !.vec.alloc = buff]

\* the value a moved-from element is left with
MovedFrom == MaxVal + 2

\* reserve(buff) for an element type whose move assignment can throw, when
\* std::move(_data, _data + _len, new_data) throws at element k: the
\* elements before k have been moved into new_data, which nothing deletes;
\* delete[] _data and the two assignments have not run
vector_reserve_move_throws(V, buff, k) ==
    IF buff <= V.vec.alloc \/ k >= V.vec.len
    THEN V
    ELSE LET h1 == new_array(V.heap, buff)
             new_data == Len(h1)
             h2 == [h1 EXCEPT ![new_data].slots = copy(h1[V.vec.data].slots, k, @)]
             h3 == [h2 EXCEPT ![V.vec.data].slots =
                                  [i \in 1..Len(@) |-> IF i <= k THEN MovedFrom ELSE @[i]]]
         IN [V EXCEPT !.heap = h3]

\* cslt::move_if_noexcept(x) returns cslt::move(x), and cslt::move returns a
\* T by value: the reference handed back is bound to a temporary that is
\* gone when move_if_noexcept returns.  Reading it is undefined; a build
\* reads the value the temporary had, reads something else, or crashes.
DanglingReads == {"value", "garbage", "crash"}

\* what `value` gives when it is read, for a parameter `const T& value`
\* bound to element j of the array old of the vector: the element, or, once
\* delete[] has run on that array, what a read of freed memory gives (the
\* value last stored there, anything else, or a fault).  The result is the
\* value read and whether the read was of freed memory and whether it faulted.
read_ref(h, old, was, j, read) ==
    IF h[old].freed = 0
    THEN [value |-> h[old].slots[j + 1], freed |-> FALSE, fault |-> FALSE]
    ELSE [value |-> IF read = "value" THEN was[j + 1] ELSE Uninit,
          freed |-> TRUE, fault |-> read = "crash"]

\* push_back(value) with value bound to element j of this vector
vector_push_back_ref(V, j, read) ==
    LET V1 == IF push_back_full(V.vec.len, V.vec.alloc) THEN grow(V) ELSE V
        r == read_ref(V1.heap, V.vec.data, V.heap[V.vec.data].slots, j, read)
        V2 == store(V1, V1.vec.len, r.value)
    IN [V |-> IF r.fault THEN V1 ELSE [V2 EXCEPT !.vec.len = @ + 1], threw |-> FALSE, r |-> r]

\* push_back(value, index) with value bound to element j of this vector
vector_push_back_at_ref(V, j, index, read) ==
    IF index_out_of_bounds(index, V.vec.len)
    THEN [V |-> V, threw |-> TRUE, r |-> [value |-> Uninit, freed |-> FALSE, fault |-> FALSE]]
    ELSE LET V1 == IF push_back_at_full(V.vec.len, V.vec.alloc) THEN grow(V) ELSE V
             V2 == shift_elements(V1, index)
             r == read_ref(V2.heap, V.vec.data, V.heap[V.vec.data].slots, j, read)
             V3 == store(V2, index, r.value)
         IN [V |-> IF r.fault THEN V2 ELSE [V3 EXCEPT !.vec.len = @ + 1], threw |-> FALSE,
             r |-> r]

\* the implicitly defined vector(const vector&) and operator=(const
\* vector&): each member is copied, _data as a pointer
vector_copy(V) == V

\* ~vector(): delete[] _data; _len = 0; the heap afterwards
vector_dtor(h, members) == delete_array(h, members.data)

\* const cslt::size_t size()
size(V) == V.vec.len

\* const cslt::size_t alloc()
alloc(V) == V.vec.alloc

\* the elements 0.._len-1 of the vector, in order
Contents(V) == [i \in 1..V.vec.len |-> V.heap[V.vec.data].slots[i]]

\* the growth block when `new T[_alloc]` throws std::bad_alloc: _alloc has
\* been assigned and nothing else has run
grow_bad_alloc(V) == [V EXCEPT !.vec.alloc = GrowCap(@)]

\* push_back(value) when the allocation of its growth block throws
vector_push_back_bad_alloc(V, value) ==
    IF push_back_full(V.vec.len, V.vec.alloc) THEN grow_bad_alloc(V) ELSE V

\* push_back(value, index) when the allocation of its growth block throws
vector_push_back_at_bad_alloc(V, value, index) ==
    IF ~index_out_of_bounds(index, V.vec.len) /\ push_back_at_full(V.vec.len, V.vec.alloc)
    THEN grow_bad_alloc(V)
    ELSE V

\* reserve(buff) when `new T[buff]` throws: it is the first statement of
\* the branch
vector_reserve_bad_alloc(V, buff) == V

\* _data[i] is past the end of the array _data points at
Overrun(V, i) == i >= Len(V.heap[V.vec.data].slots)

\* ------------------------------------------------------------------------
\* The client program of one vector: it is constructed (Init) and then
\* appended to, inserted into and reserved.
\* ------------------------------------------------------------------------
VecStep(V, op, value, index, threw, n) ==
    /\ heap' = V.heap
    /\ vec' = V.vec
    /\ appends' = n
    /\ last' = [op |-> op, value |-> value, index |-> index, threw |-> threw,
                pre |-> VState]
    /\ UNCHANGED <<sbox, sobj, scnt, ubox, uobj, abox, strs, ub, excs, prs, vcopy>>

VecAppend(value) ==
    /\ push_back_full(vec.len, vec.alloc) => GrowCap(vec.alloc) <= MaxCap
    /\ VecStep(vector_push_back(VState, value), "push_back", value, vec.len, FALSE,
               appends + 1)

VecInsertAt(value, index) ==
    /\ (index <= vec.len /\ vec.len + 1 > vec.alloc) => GrowCap(vec.alloc) <= MaxCap
    /\ LET r == vector_push_back_at(VState, value, index)
       IN VecStep(r.V, "push_back_at", value, index, r.threw, appends)

VecReserve(buff) ==
    VecStep(vector_reserve(VState, buff), "reserve", Uninit, buff, FALSE, appends)

Constructed(V, op, n) ==
    /\ NoShared
    /\ NoUnique
    /\ NoBuffers
    /\ NoExceptions
    /\ NoPairs
    /\ NoCopy
    /\ heap = V.heap
    /\ vec = V.vec
    /\ appends = 0
    /\ last = [op |-> op, value |-> Uninit, index |-> n, threw |-> FALSE, pre |-> NoHeap]

RECURSIVE SeqsUpTo(_)
SeqsUpTo(n) ==
    IF n = 0 THEN {<<>>}
    ELSE LET shorter == SeqsUpTo(n - 1)
         IN shorter \cup {Append(q, x) : q \in {t \in shorter : Len(t) = n - 1}, x \in Values}

InitVec ==
    \/ Constructed(vector_default, "vector", 1)
    \/ \E buff \in 0..MaxCap : Constructed(vector_buff(buff), "vector_buff", buff)
    \/ \E ilist \in SeqsUpTo(MaxInit) : Constructed(vector_ilist(ilist), "vector_ilist", Len(ilist))

NextVec ==
    \/ \E value \in Values : VecAppend(value)
    \/ \E value \in Values, index \in 0..MaxCap : VecInsertAt(value, index)
    \/ \E buff \in 0..MaxCap : VecReserve(buff)

SpecVec == InitVec /\ [][NextVec]_vars

\* the append-only client: a default-constructed vector, then push_back only
GrowAppend(value) ==
    /\ appends < MaxAppends
    /\ VecStep(vector_push_back(VState, value), "push_back", value, vec.len, FALSE,
               appends + 1)

InitVecGrow == Constructed(vector_default, "vector", 1)

NextVecGrow == \E value \in Values : GrowAppend(value)

SpecVecGrow == InitVecGrow /\ [][NextVecGrow]_vars

\* the client of one vector on a machine that can run out of memory: every
\* `new T[n]` of an operation either succeeds or throws std::bad_alloc, which
\* the client catches.  A write past the end of the array is undefined
\* behaviour, after which nothing is modelled.
VecOomStep(V, op, value, index, threw, overrun) ==
    /\ ~ub
    /\ heap' = V.heap
    /\ vec' = V.vec
    /\ ub' = overrun
    /\ last' = [op |-> op, value |-> value, index |-> index, threw |-> threw,
                pre |-> VState]
    /\ UNCHANGED <<sbox, sobj, scnt, ubox, uobj, abox, strs, appends, excs, prs, vcopy>>

OomAppend(value) ==
    /\ push_back_full(vec.len, vec.alloc) => GrowCap(vec.alloc) <= MaxCap
    /\ VecOomStep(vector_push_back(VState, value), "push_back", value, vec.len, FALSE,
                  ~push_back_full(vec.len, vec.alloc) /\ Overrun(VState, vec.len))

OomAppendBadAlloc(value) ==
    /\ push_back_full(vec.len, vec.alloc)
    /\ GrowCap(vec.alloc) <= MaxCap
    /\ VecOomStep(vector_push_back_bad_alloc(VState, value), "push_back_bad_alloc", value,
                  vec.len, TRUE, FALSE)

OomInsertAt(value, index) ==
    /\ (index <= vec.len /\ vec.len + 1 > vec.alloc) => GrowCap(vec.alloc) <= MaxCap
    /\ LET r == vector_push_back_at(VState, value, index)
       IN VecOomStep(r.V, "push_back_at", value, index, r.threw,
                     ~r.threw /\ vec.len + 1 <= vec.alloc /\ Overrun(VState, vec.len))

OomInsertAtBadAlloc(value, index) ==
    /\ index <= vec.len
    /\ vec.len + 1 > vec.alloc
    /\ GrowCap(vec.alloc) <= MaxCap
    /\ VecOomStep(vector_push_back_at_bad_alloc(VState, value, index), "push_back_at_bad_alloc",
                  value, index, TRUE, FALSE)

OomReserve(buff) ==
    VecOomStep(vector_reserve(VState, buff), "reserve", Uninit, buff, FALSE, FALSE)

OomReserveBadAlloc(buff) ==
    /\ buff > vec.alloc
    /\ VecOomStep(vector_reserve_bad_alloc(VState, buff), "reserve_bad_alloc", Uninit, buff,
                  TRUE, FALSE)

InitVecOom == InitVec

NextVecOom ==
    \/ \E value \in Values : OomAppend(value)
    \/ \E value \in Values : OomAppendBadAlloc(value)
    \/ \E value \in Values, index \in 0..MaxCap : OomInsertAt(value, index)
    \/ \E value \in Values, index \in 0..MaxCap : OomInsertAtBadAlloc(value, index)
    \/ \E buff \in 0..MaxCap : OomReserve(buff)
    \/ \E buff \in 0..MaxCap : OomReserveBadAlloc(buff)

SpecVecOom == InitVecOom /\ [][NextVecOom]_vars

\* the client of a vector of elements whose move assignment can throw: it
\* appends and reserves, and the element transfer of a reserve may throw at
\* any element, which the client catches
VecReserveMoveThrows(buff, k) ==
    /\ buff > vec.alloc
    /\ k < vec.len
    /\ Len(heap) < MaxArrs
    /\ VecStep(vector_reserve_move_throws(VState, buff, k), "reserve_move_throws", Uninit, buff,
               TRUE, appends)

InitVecThrow == InitVec

NextVecThrow ==
    \/ \E value \in Values : VecAppend(value)
    \/ \E buff \in 0..MaxCap : VecReserve(buff)
    \/ \E buff \in 0..MaxCap, k \in 0..MaxCap : VecReserveMoveThrows(buff, k)

SpecVecThrow == InitVecThrow /\ [][NextVecThrow]_vars

\* the client of two vectors: v is constructed (Init) and appended to; w is
\* copy-constructed from v, or default-constructed and then assigned v; both
\* are destroyed.  A delete[] or a read of an array already deleted is
\* undefined behaviour: the step is counted and the client appends no more
\* to a vector whose array is gone.
CopyStep(h, members, copyrec, op, value) ==
    /\ ~ub
    /\ heap' = h
    /\ vec' = members
    /\ vcopy' = copyrec
    /\ last' = [op |-> op, value |-> value, index |-> 0, threw |-> FALSE, pre |-> VState]
    /\ UNCHANGED <<sbox, sobj, scnt, ubox, uobj, abox, strs, ub, excs, prs, appends>>

\* vector w(v);
CopyConstruct ==
    /\ ~vcopy.live
    /\ ~vcopy.gone
    /\ ~vcopy.destroyed
    /\ LET W == vector_copy(VState)
       IN CopyStep(W.heap, vec, [vcopy EXCEPT !.live = TRUE, !.vec = W.vec], "copy_ctor", Uninit)

\* vector w;
CopyDefaultConstruct ==
    /\ ~vcopy.live
    /\ ~vcopy.gone
    /\ CopyStep(new_array(heap, 1), vec,
                [vcopy EXCEPT !.live = TRUE, !.vec = [data |-> Len(heap) + 1, len |-> 0, alloc |-> 1]],
                "vector", Uninit)

\* w = v;
CopyAssign ==
    /\ vcopy.live
    /\ ~vcopy.destroyed
    /\ LET W == vector_copy(VState)
       IN CopyStep(W.heap, vec, [vcopy EXCEPT !.vec = W.vec], "copy_assign", Uninit)

\* v.push_back(value)
CopyAppend(value) ==
    /\ ~vcopy.destroyed
    /\ heap[vec.data].freed = 0
    /\ push_back_full(vec.len, vec.alloc) => GrowCap(vec.alloc) <= MaxCap
    /\ LET V == vector_push_back(VState, value)
       IN CopyStep(V.heap, V.vec, vcopy, "push_back", value)

\* v goes out of scope
CopyDestroyOriginal ==
    /\ ~vcopy.destroyed
    /\ CopyStep(vector_dtor(heap, vec), [vec EXCEPT !.len = 0],
                [vcopy EXCEPT !.destroyed = TRUE], "dtor", Uninit)

\* w goes out of scope
CopyDestroyCopy ==
    /\ vcopy.live
    /\ CopyStep(vector_dtor(heap, vcopy.vec), vec,
                [vcopy EXCEPT !.live = FALSE, !.gone = TRUE, !.vec.len = 0], "dtor_copy", Uninit)

InitVecCopy == InitVec

NextVecCopy ==
    \/ CopyConstruct
    \/ CopyDefaultConstruct
    \/ CopyAssign
    \/ \E value \in Values : CopyAppend(value)
    \/ CopyDestroyOriginal
    \/ CopyDestroyCopy

SpecVecCopy == InitVecCopy /\ [][NextVecCopy]_vars

\* the client that passes an element of the vector as the value: the
\* reference is one an element type can hand out (its assignment operator
\* is given the address of the slot); j is the element referred to
AliasStep(R, op, j, index) ==
    /\ ~ub
    /\ heap' = R.V.heap
    /\ vec' = R.V.vec
    /\ ub' = R.r.fault
    /\ last' = [op |-> op, value |-> R.r.value, index |-> index, threw |-> R.threw,
                pre |-> VState, j |-> j, freed |-> R.r.freed]
    /\ UNCHANGED <<sbox, sobj, scnt, ubox, uobj, abox, strs, excs, prs, vcopy, appends>>

AliasAppend(j) ==
    /\ j < vec.len
    /\ push_back_full(vec.len, vec.alloc) => GrowCap(vec.alloc) <= MaxCap
    /\ \E read \in DanglingReads :
          AliasStep(vector_push_back_ref(VState, j, read), "push_back_ref", j, vec.len)

AliasInsertAt(j, index) ==
    /\ j < vec.len
    /\ (index <= vec.len /\ vec.len + 1 > vec.alloc) => GrowCap(vec.alloc) <= MaxCap
    /\ \E read \in DanglingReads :
          AliasStep(vector_push_back_at_ref(VState, j, index, read), "push_back_at_ref", j, index)

AliasPlainAppend(value) ==
    /\ ~ub
    /\ VecAppend(value)

InitVecAlias == InitVec

NextVecAlias ==
    \/ \E value \in Values : AliasPlainAppend(value)
    \/ \E j \in 0..MaxCap : AliasAppend(j)
    \/ \E j \in 0..MaxCap, index \in 0..MaxCap : AliasInsertAt(j, index)

SpecVecAlias == InitVecAlias /\ [][NextVecAlias]_vars

\* ------------------------------------------------------------------------
\* Claims about vector
\* ------------------------------------------------------------------------
Max(x, y) == IF x >= y THEN x ELSE y

\* s with x inserted before its element number i (counted from 0)
InsertSeq(s, i, x) == SubSeq(s, 1, i) \o <<x>> \o SubSeq(s, i + 1, Len(s))

\* the smallest power of two that is >= k, from p upwards
RECURSIVE Pow2AtLeast(_, _)
Pow2AtLeast(p, k) == IF p >= k THEN p ELSE Pow2AtLeast(2 * p, k)

\* C6: after construction and any sequence of append, insertAt and reserve,
\* length <= capacity, and capacity is the number of slots of the live array
\* the vector owns.
C6_LenWithinCapacity ==
    /\ size(VState) <= alloc(VState)
    /\ vec.data \in 1..Len(heap)
    /\ heap[vec.data].freed = 0
    /\ Len(heap[vec.data].slots) = alloc(VState)

\* a full vector was just grown by an insert and is full no longer
C6_Witness ==
    /\ last.op = "push_back_at"
    /\ last.pre.vec.len = last.pre.vec.alloc
    /\ last.pre.vec.len >= 2
    /\ alloc(VState) > last.pre.vec.alloc
    /\ size(VState) < alloc(VState)

\* C7 as stated: the capacities before the first append and after each of
\* the first eight appends are 1,1,2,2,4,4,4,4,8, and size() is the number
\* of appends.
ClaimedCapacities == <<1, 1, 2, 2, 4, 4, 4, 4, 8>>

C7_ClaimedSequence ==
    appends + 1 \in DOMAIN ClaimedCapacities =>
        /\ alloc(VState) = ClaimedCapacities[appends + 1]
        /\ size(VState) = appends

\* C7 as amended: for a vector started at capacity 1, the capacity after k
\* appends is the smallest power of two >= k (1 for k = 0), that is
\* 1,1,2,4,4,8,8,8,8,16,..., and size() is the number of appends.
C7_DoublingSequence ==
    /\ alloc(VState) = Pow2AtLeast(1, appends)
    /\ size(VState) = appends

\* five appends have been made and the capacity has doubled three times
C7_Witness ==
    /\ last.op = "push_back"
    /\ appends = 5
    /\ alloc(VState) = 8
    /\ last.pre.vec.alloc = 4

\* C8: append(value) on contents [a0..a(n-1)] yields [a0..a(n-1), value] and
\* length n+1; the capacity becomes max(1, 2*capacity) when length equalled
\* capacity before the call and is unchanged otherwise.
C8_AppendPostcondition ==
    last.op = "push_back" =>
        /\ size(VState) = last.pre.vec.len + 1
        /\ alloc(VState) = IF last.pre.vec.len = last.pre.vec.alloc
                            THEN Max(1, 2 * last.pre.vec.alloc)
                            ELSE last.pre.vec.alloc
        /\ Contents(VState) = Append(Contents(last.pre), last.value)

\* an append to a full vector of two elements doubled its capacity
C8_Witness ==
    /\ last.op = "push_back"
    /\ last.pre.vec.len = 2
    /\ last.pre.vec.alloc = 2
    /\ alloc(VState) = 4
    /\ Contents(VState) = Append(Contents(last.pre), last.value)

\* C9: inserting x at a valid index i of contents [a0..a(n-1)] yields
\* [a0..a(i-1), x, ai..a(n-1)] with length n+1, with or without growth.
C9_InsertPostcondition ==
    (last.op = "push_back_at" /\ last.index <= last.pre.vec.len) =>
        /\ ~last.threw
        /\ size(VState) = last.pre.vec.len + 1
        /\ Contents(VState) = InsertSeq(Contents(last.pre), last.index, last.value)

\* an insert in the middle of a full vector of two different elements
C9_Witness ==
    /\ last.op = "push_back_at"
    /\ last.index = 1
    /\ last.pre.vec.len = 2
    /\ last.pre.vec.alloc = 2
    /\ Contents(last.pre)[1] # Contents(last.pre)[2]
    /\ last.value # Contents(last.pre)[2]
    /\ size(VState) = 3

\* C10: insertAt(value, index) with index > length raises out_of_range and
\* leaves the array, its contents, the length and the capacity as they were.
C10_InsertOutOfRange ==
    (last.op = "push_back_at" /\ last.index > last.pre.vec.len) =>
        /\ last.threw
        /\ VState = last.pre

\* an insert one past the end of a full, non-empty vector threw
C10_Witness ==
    /\ last.op = "push_back_at"
    /\ last.index = last.pre.vec.len + 1
    /\ last.pre.vec.len = last.pre.vec.alloc
    /\ last.pre.vec.len >= 1
    /\ last.threw

\* C34: in every state of the vector (capacity 0 included) and for every
\* value v, push_back(v, size()) does not throw and leaves the same array,
\* length, capacity and contents as push_back(v); the two growth tests agree.
C34_InsertAtEndIsAppend ==
    \A value \in Values :
        LET r == vector_push_back_at(VState, value, size(VState))
        IN /\ ~r.threw
           /\ push_back_at_full(vec.len, vec.alloc) = push_back_full(vec.len, vec.alloc)
           /\ r.V.vec = vector_push_back(VState, value).vec
           /\ r.V = vector_push_back(VState, value)
           /\ Contents(r.V) = Contents(vector_push_back(VState, value))

\* an insert at the end of a vector of capacity 0 grew it as an append does
C34_Witness ==
    /\ last.op = "push_back_at"
    /\ last.pre.vec.alloc = 0
    /\ last.index = last.pre.vec.len
    /\ ~last.threw
    /\ alloc(VState) = 1
    /\ VState = vector_push_back(last.pre, last.value)

\* C24 as stated: a vector constructed by default or with a requested
\* capacity n has length 0 and capacity max(1, n).
C24_CapacityAtLeastOne ==
    last.op \in {"vector", "vector_buff"} =>
        /\ size(VState) = 0
        /\ alloc(VState) = Max(1, last.index)

\* C24 as the constructors behave: a default-constructed vector has length
\* 0 and capacity 1; a vector constructed with a requested capacity n has
\* length 0 and capacity n, an array of n slots, so capacity 0 for n = 0.
C24_CapacityAsRequested ==
    /\ last.op = "vector" =>
          /\ size(VState) = 0
          /\ alloc(VState) = 1
          /\ Len(heap[vec.data].slots) = 1
    /\ last.op = "vector_buff" =>
          /\ size(VState) = 0
          /\ alloc(VState) = last.index
          /\ Len(heap[vec.data].slots) = last.index

\* a vector constructed with requested capacity 0 has capacity 0
C24_Witness ==
    /\ last.op = "vector_buff"
    /\ last.index = 0
    /\ size(VState) = 0
    /\ alloc(VState) = 0

\* C25: reserve(m) with m <= capacity changes nothing; with m > capacity
\* the capacity is exactly m, in a newly allocated array of m slots, the
\* length and the elements 0..length-1 are as they were, and the old array
\* has been freed exactly once.
C25_Reserve ==
    last.op = "reserve" =>
        LET P == last.pre
            m == last.index
        IN /\ m <= P.vec.alloc => VState = P
           /\ m > P.vec.alloc =>
                 /\ alloc(VState) = m
                 /\ size(VState) = P.vec.len
                 /\ vec.data = Len(P.heap) + 1
                 /\ Len(heap) = Len(P.heap) + 1
                 /\ Len(heap[vec.data].slots) = m
                 /\ heap[vec.data].freed = 0
                 /\ P.heap[P.vec.data].freed = 0
                 /\ heap[P.vec.data].freed = 1
                 /\ \A q \in 1..Len(P.heap) : q # P.vec.data => heap[q] = P.heap[q]
                 /\ Contents(VState) = Contents(P)

\* reserve has grown a vector of two elements beyond its capacity
C25_Witness ==
    /\ last.op = "reserve"
    /\ last.index > last.pre.vec.alloc
    /\ last.pre.vec.len = 2
    /\ alloc(VState) = last.index
    /\ heap[last.pre.vec.data].freed = 1

\* C26: when the allocation of a growth throws (append, insertAt, reserve),
\* the vector is exactly as before the call: same array with the same
\* contents, same length and capacity fields; so the capacity field equals
\* the slot count of the array in every state, and no operation writes past
\* the array.
C26_FailedGrowthChangesNothing ==
    /\ last.op \in {"push_back_bad_alloc", "push_back_at_bad_alloc", "reserve_bad_alloc"}
          => VState = last.pre
    /\ alloc(VState) = Len(heap[vec.data].slots)
    /\ ~ub

\* C28: when the transfer of an element throws partway through a reserve, no
\* element is lost: the vector still owns its old array, not freed, with the
\* same length and capacity, and every element value it had is still there.
C28_FailedTransferLosesNothing ==
    last.op = "reserve_move_throws"
       => /\ vec = last.pre.vec
          /\ heap[vec.data].freed = 0
          /\ Contents(VState) = Contents(last.pre)

\* C38: with a vector and its copy in the program no array is freed twice,
\* and once both have been destroyed every array either of them allocated
\* has been freed exactly once.
C38_CopyFreesEachArrayOnce ==
    /\ \A p \in 1..Len(heap) : heap[p].freed <= 1
    /\ (vcopy.destroyed /\ vcopy.gone) => \A p \in 1..Len(heap) : heap[p].freed = 1

\* C39: when the value passed to append or insertAt is element j of the
\* vector itself, no freed array is read and the value stored is the value
\* element j had before the call.
C39_AliasedValueIsStored ==
    (last.op \in {"push_back_ref", "push_back_at_ref"} /\ ~last.threw)
       => /\ ~ub
          /\ ~last.freed
          /\ last.value = last.pre.heap[last.pre.vec.data].slots[last.j + 1]
          /\ heap[vec.data].slots[last.index + 1]
                = last.pre.heap[last.pre.vec.data].slots[last.j + 1]

\* ========================================================================
\* array_ptr
\*   abox[b] : the array_ptr b: live, and the members ptr and _len;
\*             abox[Tmp] is the temporary that cslt::move returns
\*   heap[p] : the array `new T[n]` numbered p, as for vector
\*   ub      : an operation read or wrote outside a live array; what the
\*             program does from then on is undefined, so it takes no
\*             further step in the model
\* A buffer state A is the record [box, heap, ub].
\* ========================================================================
AState == [box |-> abox, heap |-> heap, ub |-> ub]

Min(x, y) == IF x <= y THEN x ELSE y

\* delete[] p: nothing for nullptr
delete_arr(h, p) == IF p # Null THEN delete_array(h, p) ELSE h

\* the elements p[0] .. p[n-1] exist
Readable(h, p, n) ==
    n = 0 \/ (p # Null /\ p \in 1..Len(h) /\ h[p].freed = 0 /\ n <= Len(h[p].slots))

\* buff > 0 ? new T[buff] : nullptr, stored in the ptr member of box b
new_or_null(A, b, buff) ==
    IF buff > 0
    THEN [A EXCEPT !.heap = new_array(@, buff), !.box[b].ptr = Len(A.heap) + 1]
    ELSE [A EXCEPT !.box[b].ptr = Null]

\* std::copy(src, src + n, dst)
std_copy_shallow(A, src, n, dst) == A
std_copy(A, src, n, dst) ==
    IF n = 0 THEN A
    ELSE IF Readable(A.heap, src, n) /\ Readable(A.heap, dst, n)
         THEN [A EXCEPT !.heap[dst].slots = copy(A.heap[src].slots, n, @)]
         ELSE [A EXCEPT !.ub = TRUE]

\* explicit array_ptr(std::size_t buff = 0)
array_ptr_ctor(A, b, buff) ==
    new_or_null([A EXCEPT !.box[b] = [live |-> TRUE, ptr |-> Null, len |-> buff]], b, buff)

\* ~array_ptr()
array_ptr_dtor(A, b) ==
    [A EXCEPT !.heap = delete_arr(@, A.box[b].ptr), !.box[b] = DeadBuf]

\* array_ptr(const array_ptr& other)
array_ptr_copy_ctor(A, a, b) ==
    LET n == A.box[b].len
        A1 == new_or_null([A EXCEPT !.box[a] = [live |-> TRUE, ptr |-> Null, len |-> n]], a, n)
    IN std_copy(A1, A1.box[b].ptr, n, A1.box[a].ptr)

\* array_ptr& operator=(const array_ptr& other)
array_ptr_copy_assign(A, a, b) ==
    IF a # b
    THEN LET A1 == [A EXCEPT !.heap = delete_arr(@, A.box[a].ptr)]
             A2 == [A1 EXCEPT !.box[a].len = A1.box[b].len]
             A3 == new_or_null(A2, a, A2.box[b].len)
         IN std_copy(A3, A3.box[b].ptr, A3.box[b].len, A3.box[a].ptr)
    ELSE A

\* operator=(const array_ptr&) when `new T[_len]` throws std::bad_alloc:
\* delete[] ptr and _len = other._len have run, ptr has not been assigned
array_ptr_copy_assign_bad_alloc(A, a, b) ==
    IF a # b /\ A.box[b].len > 0
    THEN LET A1 == [A EXCEPT !.heap = delete_arr(@, A.box[a].ptr)]
         IN [A1 EXCEPT !.box[a].len = A1.box[b].len]
    ELSE A

\* array_ptr(array_ptr&& other) noexcept
array_ptr_move_ctor(A, a, b) ==
    [A EXCEPT !.box[a] = [live |-> TRUE, ptr |-> A.box[b].ptr, len |-> A.box[b].len],
              !.box[b].ptr = Null,
              !.box[b].len = 0]

\* array_ptr& operator=(array_ptr&& other) noexcept
array_ptr_move_assign_nodelete(A, a, b) ==
    IF a # b
    THEN [A EXCEPT !.box[a].ptr = A.box[b].ptr,
                   !.box[a].len = A.box[b].len,
                   !.box[b].ptr = Null,
                   !.box[b].len = 0]
    ELSE A
array_ptr_move_assign(A, a, b) ==
    IF a # b
    THEN LET A1 == [A EXCEPT !.heap = delete_arr(@, A.box[a].ptr)]
         IN [A1 EXCEPT !.box[a].ptr = A1.box[b].ptr,
                       !.box[a].len = A1.box[b].len,
                       !.box[b].ptr = Null,
                       !.box[b].len = 0]
    ELSE A

\* the early return of realloc: !reduce_size && buff < _len
realloc_skips_never(buff, reduce_size, len) == FALSE
realloc_skips(buff, reduce_size, len) == ~reduce_size /\ buff < len

\* numElementsToCopy = std::min(buff, _len)
numElementsToCopy(buff, len) == Min(buff, len)

\* for (i = 0; i < n; ++i) newPtr[i] = cslt::move_if_noexcept(ptr[i]);
\* for the element types modelled the temporary is a copy of ptr[i]
move_elements(A, src, n, dst, read) ==
    IF n = 0 THEN A
    ELSE IF ~(Readable(A.heap, src, n) /\ Readable(A.heap, dst, n)) \/ read = "crash"
         THEN [A EXCEPT !.ub = TRUE]
         ELSE IF read = "value"
              THEN [A EXCEPT !.heap[dst].slots = copy(A.heap[src].slots, n, @)]
              ELSE [A EXCEPT !.heap[dst].slots = copy([i \in 1..n |-> Uninit], n, @)]

\* void realloc(cslt::size_t buff, bool reduce_size = true); newPtr is a
\* local, held here in the ptr member of the box Tmp
array_ptr_realloc(A, b, buff, reduce_size, read) ==
    IF realloc_skips(buff, reduce_size, A.box[b].len)
    THEN A
    ELSE LET A1 == new_or_null(A, Tmp, buff)
             newPtr == A1.box[Tmp].ptr
             A2 == move_elements(A1, A1.box[b].ptr, numElementsToCopy(buff, A1.box[b].len),
                                 newPtr, read)
             A3 == [A2 EXCEPT !.heap = delete_arr(@, A2.box[b].ptr)]
         IN IF A2.ub
            THEN A2
            ELSE [A3 EXCEPT !.box[b].ptr = newPtr, !.box[b].len = buff, !.box[Tmp].ptr = Null]

\* realloc when `new T[buff]` throws std::bad_alloc: it is the first
\* statement after the early return
array_ptr_realloc_bad_alloc(A, b, buff, reduce_size) == A

\* the bounds test of both operator[]: index >= _len
index_past_len_gt(index, len) == index > len
index_past_len(index, len) == index >= len

\* T& operator[](cslt::size_t index) const, read through the reference:
\* whether out_of_range was thrown, whether ptr[index] exists, and its value
array_ptr_at_const(A, b, index) ==
    IF index_past_len(index, A.box[b].len)
    THEN [threw |-> TRUE, ub |-> FALSE, value |-> Uninit]
    ELSE IF Readable(A.heap, A.box[b].ptr, index + 1)
         THEN [threw |-> FALSE, ub |-> FALSE, value |-> A.heap[A.box[b].ptr].slots[index + 1]]
         ELSE [threw |-> FALSE, ub |-> TRUE, value |-> Uninit]

\* T& operator[](cslt::size_t index), assigned through the reference:
\* the new state and whether out_of_range was thrown
array_ptr_at(A, b, index, value) ==
    IF index_past_len(index, A.box[b].len)
    THEN [A |-> A, threw |-> TRUE]
    ELSE IF Readable(A.heap, A.box[b].ptr, index + 1)
         THEN [A |-> [A EXCEPT !.heap[A.box[b].ptr].slots[index + 1] = value], threw |-> FALSE]
         ELSE [A |-> [A EXCEPT !.ub = TRUE], threw |-> FALSE]

\* T* release()
array_ptr_release(A, b) == [A EXCEPT !.box[b].ptr = Null, !.box[b].len = 0]

\* void reset(T* p = nullptr, std::size_t newLen = 0)
array_ptr_reset_unguarded(A, b, p, newLen) ==
    [A EXCEPT !.heap = delete_arr(@, A.box[b].ptr), !.box[b].ptr = p, !.box[b].len = newLen]
array_ptr_reset(A, b, p, newLen) ==
    IF A.box[b].ptr # p
    THEN [A EXCEPT !.heap = delete_arr(@, A.box[b].ptr),
                   !.box[b].ptr = p,
                   !.box[b].len = newLen]
    ELSE A

\* cslt::size_t size() const
array_ptr_size(A, b) == A.box[b].len

\* explicit operator bool() const
array_ptr_bool(A, b) == A.box[b].ptr # Null

\* ------------------------------------------------------------------------
\* The client program of the array_ptr buffers.  A raw pointer handed to
\* reset is nullptr, the pointer the buffer holds, or a fresh `new T[1]`;
\* the capacity handed with it is any number.  The pointer release() hands
\* back is freed by the client at once.  `last` records the operation
\* that ran last, its operands and result, and the members the buffer it ran
\* on had before.
\* ------------------------------------------------------------------------
ArrStep(R, op, a, b, n, flag, threw, value) ==
    /\ ~ub
    /\ Len(R.heap) <= MaxArrs
    /\ abox' = R.box
    /\ heap' = R.heap
    /\ ub' = R.ub
    /\ last' = [op |-> op, a |-> a, b |-> b, n |-> n, flag |-> flag, threw |-> threw,
                value |-> value, was |-> abox[a]]
    /\ UNCHANGED <<sbox, sobj, scnt, ubox, uobj, vec, appends, strs, excs, prs, vcopy>>

ArrConstruct(b, buff) ==
    /\ ~abox[b].live
    /\ ArrStep(array_ptr_ctor(AState, b, buff), "ctor", b, b, buff, FALSE, FALSE, Uninit)

ArrDestroy(b) ==
    /\ abox[b].live
    /\ ArrStep(array_ptr_dtor(AState, b), "dtor", b, b, 0, FALSE, FALSE, Uninit)

ArrCopyConstruct(a, b) ==
    /\ ~abox[a].live
    /\ abox[b].live
    /\ ArrStep(array_ptr_copy_ctor(AState, a, b), "copy_ctor", a, b, 0, FALSE, FALSE, Uninit)

ArrCopyAssign(a, b) ==
    /\ abox[a].live
    /\ abox[b].live
    /\ ArrStep(array_ptr_copy_assign(AState, a, b), "copy_assign", a, b, 0, FALSE, FALSE, Uninit)

ArrMoveConstruct(a, b) ==
    /\ ~abox[a].live
    /\ abox[b].live
    /\ ArrStep(array_ptr_move_ctor(AState, a, b), "move_ctor", a, b, 0, FALSE, FALSE, Uninit)

ArrMoveAssign(a, b) ==
    /\ abox[a].live
    /\ abox[b].live
    /\ ArrStep(array_ptr_move_assign(AState, a, b), "move_assign", a, b, 0, FALSE, FALSE, Uninit)

ArrRealloc(b, buff, reduce_size) ==
    /\ abox[b].live
    /\ \E read \in DanglingReads :
          ArrStep(array_ptr_realloc(AState, b, buff, reduce_size, read), "realloc", b, b, buff,
                  reduce_size, FALSE, Uninit)

\* x = buffer[index] through the const operator[]
ArrRead(b, index) ==
    /\ abox[b].live
    /\ LET r == array_ptr_at_const(AState, b, index)
       IN ArrStep([AState EXCEPT !.ub = r.ub], "at_const", b, b, index, FALSE, r.threw, r.value)

\* buffer[index] = value through the mutable operator[]
ArrWrite(b, index, value) ==
    /\ abox[b].live
    /\ LET r == array_ptr_at(AState, b, index, value)
       IN ArrStep(r.A, "at", b, b, index, FALSE, r.threw, value)

\* delete[] buffer.release(): the caller frees the array handed back
ArrRelease(b) ==
    /\ abox[b].live
    /\ LET R == array_ptr_release(AState, b)
       IN ArrStep([R EXCEPT !.heap = delete_arr(@, abox[b].ptr)], "release", b, b, 0,
                  FALSE, FALSE, Uninit)

\* reset(nullptr, n), reset(the held pointer, n)
ArrReset(b, n) ==
    /\ abox[b].live
    /\ \E p \in {Null, abox[b].ptr} :
          ArrStep(array_ptr_reset(AState, b, p, n), "reset", b, p, n, FALSE, FALSE, Uninit)

\* reset(new T[1], n)
ArrResetFresh(b, n) ==
    /\ abox[b].live
    /\ ArrStep(array_ptr_reset([AState EXCEPT !.heap = new_array(@, 1)], b, Len(heap) + 1, n),
               "reset_fresh", b, Len(heap) + 1, n, FALSE, FALSE, Uninit)

InitArr ==
    /\ NoShared
    /\ NoUnique
    /\ NoVector
    /\ NoBuffers
    /\ NoExceptions
    /\ NoPairs
    /\ NoCopy
    /\ last = [op |-> "init", a |-> Null, b |-> Null, n |-> 0, flag |-> FALSE,
               threw |-> FALSE, value |-> Uninit, was |-> DeadBuf]

NextArr ==
    \/ \E b \in Bufs, buff \in 0..MaxLen : ArrConstruct(b, buff)
    \/ \E b \in Bufs : ArrDestroy(b)
    \/ \E a, b \in Bufs : ArrCopyConstruct(a, b)
    \/ \E a, b \in Bufs : ArrCopyAssign(a, b)
    \/ \E a, b \in Bufs : ArrMoveConstruct(a, b)
    \/ \E a, b \in Bufs : ArrMoveAssign(a, b)
    \/ \E b \in Bufs, buff \in 0..MaxLen, reduce_size \in BOOLEAN : ArrRealloc(b, buff, reduce_size)
    \/ \E b \in Bufs, index \in 0..MaxLen : ArrRead(b, index)
    \/ \E b \in Bufs, index \in 0..MaxLen, value \in Values : ArrWrite(b, index, value)
    \/ \E b \in Bufs : ArrRelease(b)
    \/ \E b \in Bufs, n \in 0..MaxLen : ArrReset(b, n)
    \/ \E b \in Bufs, n \in 0..MaxLen : ArrResetFresh(b, n)

SpecArr == InitArr /\ [][NextArr]_vars

\* the client of array_ptr on a machine that can run out of memory: the
\* allocation of a copy assignment or of a realloc either succeeds or throws
\* std::bad_alloc, which the client catches
ArrCopyAssignBadAlloc(a, b) ==
    /\ abox[a].live
    /\ abox[b].live
    /\ a # b
    /\ abox[b].len > 0
    /\ ArrStep(array_ptr_copy_assign_bad_alloc(AState, a, b), "copy_assign_bad_alloc", a, b, 0,
               FALSE, TRUE, Uninit)

ArrReallocBadAlloc(b, buff, reduce_size) ==
    /\ abox[b].live
    /\ buff > 0
    /\ ~realloc_skips(buff, reduce_size, abox[b].len)
    /\ ArrStep(array_ptr_realloc_bad_alloc(AState, b, buff, reduce_size), "realloc_bad_alloc",
               b, b, buff, reduce_size, TRUE, Uninit)

\* no array has been deleted twice; the second delete[] of an array is
\* undefined behaviour and the client is not followed past it
Intact == \A p \in 1..Len(heap) : heap[p].freed <= 1

InitArrOom == InitArr

NextArrOom ==
    \/ \E b \in Bufs, buff \in 0..MaxLen : Intact /\ ArrConstruct(b, buff)
    \/ \E b \in Bufs : Intact /\ ArrDestroy(b)
    \/ \E a, b \in Bufs : Intact /\ ArrCopyAssign(a, b)
    \/ \E a, b \in Bufs : Intact /\ ArrCopyAssignBadAlloc(a, b)
    \/ \E b \in Bufs, buff \in 0..MaxLen, reduce_size \in BOOLEAN :
          Intact /\ ArrRealloc(b, buff, reduce_size)
    \/ \E b \in Bufs, buff \in 0..MaxLen, reduce_size \in BOOLEAN :
          Intact /\ ArrReallocBadAlloc(b, buff, reduce_size)
    \/ \E b \in Bufs, index \in 0..MaxLen, value \in Values :
          Intact /\ ArrWrite(b, index, value)

SpecArrOom == InitArrOom /\ [][NextArrOom]_vars

\* ------------------------------------------------------------------------
\* Properties of array_ptr
\* ------------------------------------------------------------------------

\* the array behind a pointer: no slots behind nullptr
SlotsOf(h, p) == IF p = Null THEN <<>> ELSE h[p].slots

\* an array_ptr as its constructors leave it: ptr is nullptr and _len is 0,
\* or ptr is an allocated array of _len elements that has not been freed
WellFormed(h, box) ==
    /\ box.live
    /\ box.ptr = Null => box.len = 0
    /\ box.ptr # Null => /\ box.ptr \in 1..Len(h)
                         /\ h[box.ptr].freed = 0
                         /\ Len(h[box.ptr].slots) = box.len
                         /\ box.len > 0

FirstSlots(h, p, n) == SubSeq(SlotsOf(h, p), 1, n)

\* the step was done on array p and nothing else of the heap that was there
\* before changed
OnlyFreed(p) ==
    /\ p # Null => heap'[p].freed = heap[p].freed + 1
    /\ \A q \in 1..Len(heap) : q # p => heap'[q] = heap[q]

\* C11: a realloc of a buffer of capacity C to a larger capacity, or to a
\* smaller one with reduce_size = true, leaves a buffer of the new capacity
\* whose first min(C, new capacity) slots hold the values the buffer had in
\* them, in a newly allocated array (no array for capacity 0), and frees the
\* old array exactly once.
C11_ReallocKeepsPrefix ==
    [][\A b \in Bufs :
          ( /\ last'.op = "realloc"
            /\ last'.a = b
            /\ WellFormed(heap, abox[b])
            /\ \/ last'.n > abox[b].len
               \/ last'.n < abox[b].len /\ last'.flag )
          => /\ ~ub'
             /\ WellFormed(heap', abox'[b])
             /\ array_ptr_size([box |-> abox', heap |-> heap', ub |-> ub'], b) = last'.n
             /\ last'.n = 0 => abox'[b].ptr = Null
             /\ last'.n > 0 => abox'[b].ptr = Len(heap) + 1
             /\ OnlyFreed(abox[b].ptr)
             /\ FirstSlots(heap', abox'[b].ptr, Min(last'.n, abox[b].len))
                   = FirstSlots(heap, abox[b].ptr, Min(last'.n, abox[b].len))
      ]_vars

\* C12: realloc(newCapacity, reduce_size = false) with newCapacity below the
\* current capacity changes nothing: the buffer holds the same allocation
\* with the same capacity, no array is allocated, freed or written.
C12_ReallocNoShrinkIsNoOp ==
    [][\A b \in Bufs :
          ( /\ last'.op = "realloc"
            /\ last'.a = b
            /\ ~last'.flag
            /\ last'.n < array_ptr_size(AState, b) )
          => /\ abox' = abox
             /\ heap' = heap
             /\ ub' = ub
      ]_vars

\* realloc(1, false) has run on a buffer of two slots, the first one written
C12_Witness ==
    /\ last.op = "realloc"
    /\ ~last.flag
    /\ last.n = 1
    /\ last.was.len = 2
    /\ abox[last.a] = last.was
    /\ WellFormed(heap, abox[last.a])
    /\ SlotsOf(heap, abox[last.a].ptr)[1] \in Values

\* C13: on a buffer that owns an array of C slots (C = 0: no array), both
\* operator[] throw out_of_range for every index i >= C and touch nothing;
\* for i < C the const operator reads slot i and the mutable one writes
\* slot i, and nothing else changes.
C13_IndexChecked ==
    [][\A b \in Bufs :
          ( /\ last'.op \in {"at_const", "at"}
            /\ last'.a = b
            /\ WellFormed(heap, abox[b]) )
          => LET C == array_ptr_size(AState, b)
                 i == last'.n
                 p == abox[b].ptr
             IN /\ ~ub'
                /\ abox' = abox
                /\ last'.threw = (i >= C)
                /\ i >= C => heap' = heap
                /\ (i < C /\ last'.op = "at_const") =>
                      /\ heap' = heap
                      /\ last'.value = heap[p].slots[i + 1]
                /\ (i < C /\ last'.op = "at") =>
                      heap' = [heap EXCEPT ![p].slots[i + 1] = last'.value]
      ]_vars

\* the const operator[] has thrown for index C on a buffer of C = 1 slot
C13_Witness ==
    /\ last.op = "at_const"
    /\ last.threw
    /\ last.n = 1
    /\ last.was.len = 1
    /\ WellFormed(heap, abox[last.a])
    /\ abox[last.a] = last.was

\* C14: after any sequence of array_ptr operations every buffer's pointer
\* is non-null exactly when size() > 0, and size() is the number of slots
\* of the array it owns.
C14_PtrIffCapacity ==
    \A b \in Bufs :
        (abox[b].live /\ ~ub) =>
            /\ array_ptr_bool(AState, b) = (array_ptr_size(AState, b) > 0)
            /\ array_ptr_size(AState, b) = Len(SlotsOf(heap, abox[b].ptr))

\* C29 as stated: reset(p, n) frees the held array whatever p is, and the
\* buffer then holds p with size() == n, also when p is the held array.
C29_ResetFreesUnconditionally ==
    [][\A b \in Bufs :
          (last'.op \in {"reset", "reset_fresh"} /\ last'.a = b)
          => /\ abox'[b].ptr = last'.b
             /\ array_ptr_size([box |-> abox', heap |-> heap', ub |-> ub'], b) = last'.n
             /\ OnlyFreed(abox[b].ptr)
      ]_vars

\* C29: reset(p, n) with p the pointer the buffer already holds does nothing:
\* nothing is freed and size() keeps its value whatever n is.  With any other
\* p it frees the held array exactly once and the buffer then holds p with
\* size() == n; no other buffer and no other array changes.
C29_ResetGuarded ==
    [][\A b \in Bufs :
          (last'.op \in {"reset", "reset_fresh"} /\ last'.a = b)
          => LET p == last'.b
                 held == abox[b].ptr
             IN /\ \A c \in Bufs \ {b} : abox'[c] = abox[c]
                /\ p = held => /\ abox'[b] = abox[b]
                               /\ heap' = heap
                /\ p # held => /\ abox'[b].ptr = p
                               /\ array_ptr_size([box |-> abox', heap |-> heap', ub |-> ub'], b)
                                     = last'.n
                               /\ abox'[b].live
                               /\ OnlyFreed(held)
      ]_vars

\* a buffer of one slot was reset to the array it holds with another length:
\* it still has its array, not freed, and its size
C29_Witness ==
    /\ last.op = "reset"
    /\ last.b # Null
    /\ last.b = last.was.ptr
    /\ last.n # last.was.len
    /\ last.was.len = 1
    /\ abox[last.a] = last.was
    /\ heap[last.b].freed = 0
    /\ ~ub

\* C30: move-constructing or move-assigning buffer b into a distinct buffer
\* a leaves a with the array and the capacity b had, leaves b with no array
\* and size() == 0, allocates nothing and changes no array, except that the
\* assignment frees the array a held before exactly once.
C30_MoveTransfers ==
    [][\A a, b \in Bufs :
          (last'.op \in {"move_ctor", "move_assign"} /\ last'.a = a /\ last'.b = b /\ a # b)
          => /\ ~ub'
             /\ abox'[a] = [live |-> TRUE, ptr |-> abox[b].ptr, len |-> abox[b].len]
             /\ array_ptr_size([box |-> abox', heap |-> heap', ub |-> ub'], a)
                   = array_ptr_size(AState, b)
             /\ abox'[b].live
             /\ ~array_ptr_bool([box |-> abox', heap |-> heap', ub |-> ub'], b)
             /\ array_ptr_size([box |-> abox', heap |-> heap', ub |-> ub'], b) = 0
             /\ Len(heap') = Len(heap)
             /\ last'.op = "move_ctor" => heap' = heap
             /\ last'.op = "move_assign" => OnlyFreed(abox[a].ptr)
      ]_vars

\* a buffer holding an array was move-assigned another buffer's array: its
\* former array has been freed once, it holds the other array, live, and the
\* source is empty
C30_Witness ==
    /\ last.op = "move_assign"
    /\ last.a # last.b
    /\ last.was.ptr # Null
    /\ heap[last.was.ptr].freed = 1
    /\ abox[last.a].ptr # Null
    /\ abox[last.a].ptr # last.was.ptr
    /\ heap[abox[last.a].ptr].freed = 0
    /\ abox[last.a].len = Len(heap[abox[last.a].ptr].slots)
    /\ abox[last.b].ptr = Null
    /\ abox[last.b].len = 0
    /\ ~ub

\* C27: a copy assignment whose allocation throws leaves the destination
\* with the array and capacity it had, that array not freed; and no array is
\* ever freed twice, so the destination's later destruction frees its array
\* exactly once.
C27_CopyAssignFailureKeepsArray ==
    /\ last.op = "copy_assign_bad_alloc"
          => /\ abox[last.a] = last.was
             /\ last.was.ptr # Null => heap[last.was.ptr].freed = 0
    /\ \A p \in 1..Len(heap) : heap[p].freed <= 1

\* ------------------------------------------------------------------------
\* String (string.hpp, string.cpp): array_ptr<char> ptr; size_t len, alloc.
\* The array_ptr member of String s is the buffer abox[s]; strs[s] holds
\* the two scalars.  Characters are Values; the terminator '\0' is a value
\* of its own, apart from the unassigned slot.
\* ------------------------------------------------------------------------
NulChar == MaxVal + 1

CStrings == UNION {[1..n -> Values] : n \in 0..MaxChars}

TState == [box |-> abox, heap |-> heap, ub |-> ub, str |-> strs]

\* std::strlen(str)
strlen(str) == Len(str)

\* std::strcpy(dst, str): the characters of str and the terminator
strcpy(T, dst, str) ==
    IF Readable(T.heap, dst, strlen(str) + 1)
    THEN [T EXCEPT !.heap[dst].slots =
             [i \in 1..Len(@) |-> IF i <= strlen(str) THEN str[i]
                                  ELSE IF i = strlen(str) + 1 THEN NulChar
                                  ELSE @[i]]]
    ELSE [T EXCEPT !.ub = TRUE]

\* alloc(std::strlen(str) + 1)
alloc_init_short(str) == strlen(str)
alloc_init(str) == strlen(str) + 1

\* String(const char* str)
String_ctor(T, s, str) ==
    LET T1 == array_ptr_ctor(T, s, strlen(str) + 1)
        T2 == [T1 EXCEPT !.str[s] = [live |-> TRUE, len |-> strlen(str), alloc |-> alloc_init(str)]]
        T3 == strcpy(T2, T2.box[s].ptr, str)
    IN IF T3.ub THEN T3 ELSE array_ptr_at(T3, s, strlen(str), NulChar).A

\* the members len(other.len), alloc(other.alloc)
copy_scalars(T, a, b) ==
    [T EXCEPT !.str[a] = [live |-> TRUE, len |-> T.str[b].len, alloc |-> T.str[b].alloc]]

\* String(const String& other)
String_copy_ctor(T, a, b) == copy_scalars(array_ptr_copy_ctor(T, a, b), a, b)

\* String& operator=(const String& other)
String_copy_assign(T, a, b) ==
    IF a # b THEN copy_scalars(array_ptr_copy_assign(T, a, b), a, b) ELSE T

\* String(String&& other) noexcept: other is an lvalue inside the
\* constructor, so ptr(other.ptr) is the array_ptr copy constructor
String_move_ctor(T, a, b) == copy_scalars(array_ptr_copy_ctor(T, a, b), a, b)

\* String& operator=(String&& other) noexcept: cslt::move returns an
\* array_ptr by value, move-constructed from other.ptr; it is move-assigned
\* to ptr and destroyed at the end of the statement
String_move_assign(T, a, b) ==
    IF a # b
    THEN LET T1 == array_ptr_move_ctor(T, Tmp, b)
             T2 == array_ptr_move_assign(T1, a, Tmp)
             T3 == array_ptr_dtor(T2, Tmp)
         IN copy_scalars(T3, a, b)
    ELSE T

\* ~String(): implicit, destroys the member ptr
String_dtor(T, s) == [array_ptr_dtor(T, s) EXCEPT !.str[s] = DeadStr]

\* cslt::size_t size() const
String_size(T, s) == T.str[s].len

\* cslt::size_t memory() const
String_memory(T, s) == T.str[s].alloc

\* const char* c_string() const
String_c_string(T, s) == SlotsOf(T.heap, T.box[s].ptr)

\* ------------------------------------------------------------------------
\* The client program of the Strings.  `last` records the operation that
\* ran last, the Strings it ran on and the C string it was given.
\* ------------------------------------------------------------------------
StrStep(T, op, a, b, cstr) ==
    /\ ~ub
    /\ Len(T.heap) <= MaxArrs
    /\ abox' = T.box
    /\ heap' = T.heap
    /\ ub' = T.ub
    /\ strs' = T.str
    /\ last' = [op |-> op, a |-> a, b |-> b, cstr |-> cstr]
    /\ UNCHANGED <<sbox, sobj, scnt, ubox, uobj, vec, appends, excs, prs, vcopy>>

StrConstruct(s, str) ==
    /\ ~strs[s].live
    /\ StrStep(String_ctor(TState, s, str), "ctor", s, s, str)

StrDestroy(s) ==
    /\ strs[s].live
    /\ StrStep(String_dtor(TState, s), "dtor", s, s, <<>>)

StrCopyConstruct(a, b) ==
    /\ ~strs[a].live
    /\ strs[b].live
    /\ StrStep(String_copy_ctor(TState, a, b), "copy_ctor", a, b, <<>>)

StrCopyAssign(a, b) ==
    /\ strs[a].live
    /\ strs[b].live
    /\ StrStep(String_copy_assign(TState, a, b), "copy_assign", a, b, <<>>)

StrMoveConstruct(a, b) ==
    /\ ~strs[a].live
    /\ strs[b].live
    /\ StrStep(String_move_ctor(TState, a, b), "move_ctor", a, b, <<>>)

StrMoveAssign(a, b) ==
    /\ strs[a].live
    /\ strs[b].live
    /\ StrStep(String_move_assign(TState, a, b), "move_assign", a, b, <<>>)

\* a character of the String's backing storage is overwritten through the
\* buffer's operator[]
StrPoke(s, index, value) ==
    /\ strs[s].live
    /\ index < String_size(TState, s)
    /\ StrStep(array_ptr_at(TState, s, index, value).A, "poke", s, s, <<value>>)

InitStr ==
    /\ NoShared
    /\ NoUnique
    /\ NoVector
    /\ NoBuffers
    /\ NoExceptions
    /\ NoPairs
    /\ NoCopy
    /\ last = [op |-> "init", a |-> Null, b |-> Null, cstr |-> <<>>]

NextStr ==
    \/ \E s \in Bufs, str \in CStrings : StrConstruct(s, str)
    \/ \E s \in Bufs : StrDestroy(s)
    \/ \E a, b \in Bufs : StrCopyConstruct(a, b)
    \/ \E a, b \in Bufs : StrCopyAssign(a, b)
    \/ \E a, b \in Bufs : StrMoveConstruct(a, b)
    \/ \E a, b \in Bufs : StrMoveAssign(a, b)
    \/ \E s \in Bufs, index \in 0..MaxChars, value \in Values : StrPoke(s, index, value)

SpecStr == InitStr /\ [][NextStr]_vars

\* ------------------------------------------------------------------------
\* Properties of String
\* ------------------------------------------------------------------------

\* C15: every String that an operation has constructed, assigned to or
\* read from has allocated == length + 1 and a null terminator at index
\* length of its buffer.
C15_TerminatedAtLength ==
    \A s \in Bufs :
        (strs[s].live /\ ~ub) =>
            /\ String_memory(TState, s) = String_size(TState, s) + 1
            /\ Len(String_c_string(TState, s)) > String_size(TState, s)
            /\ String_c_string(TState, s)[String_size(TState, s) + 1] = NulChar

\* C16: a String just constructed from a C string of n characters has
\* size() == n and memory() == n + 1, and its buffer has capacity n + 1 and
\* holds the n characters followed by the null terminator.
C16_CtorFromCString ==
    last.op = "ctor" =>
        LET s == last.a
            n == strlen(last.cstr)
        IN /\ ~ub
           /\ String_size(TState, s) = n
           /\ String_memory(TState, s) = n + 1
           /\ array_ptr_size(TState, s) = n + 1
           /\ WellFormed(heap, abox[s])
           /\ String_c_string(TState, s) = last.cstr \o <<NulChar>>

\* a String has been constructed from a C string of two different characters
C16_Witness ==
    /\ last.op = "ctor"
    /\ strlen(last.cstr) = 2
    /\ last.cstr[1] # last.cstr[2]
    /\ String_size(TState, last.a) = 2
    /\ String_c_string(TState, last.a)[3] = NulChar

\* C17: copy-constructing or copy-assigning String b to a distinct String a
\* leaves a with b's scalars and b's capacity and element values in an
\* array allocated by the copy, and leaves b as it was; a later write
\* through one String's buffer changes no other array; no two Strings
\* hold the same array, no array is freed twice, and once every String is
\* destroyed every array has been freed exactly once.
C17_CopyIsDeep ==
    [][/\ ~ub'
       /\ \A a, b \in Bufs :
             (last'.op \in {"copy_ctor", "copy_assign"} /\ last'.a = a /\ last'.b = b /\ a # b)
             => /\ strs'[a] = strs[b]
                /\ strs'[b] = strs[b]
                /\ abox'[b] = abox[b]
                /\ array_ptr_size([box |-> abox', heap |-> heap', ub |-> ub'], a)
                      = array_ptr_size(AState, b)
                /\ abox[b].ptr # Null => abox'[a].ptr = Len(heap) + 1
                /\ SlotsOf(heap', abox'[b].ptr) = SlotsOf(heap, abox[b].ptr)
                /\ SlotsOf(heap', abox'[a].ptr) = SlotsOf(heap, abox[b].ptr)
       /\ \A s \in Bufs :
             (last'.op = "poke" /\ last'.a = s)
             => \A q \in 1..Len(heap) : q # abox[s].ptr => heap'[q] = heap[q]
       /\ \A s, t \in Bufs :
             (s # t /\ abox'[s].ptr # Null) => abox'[s].ptr # abox'[t].ptr
       /\ \A q \in 1..Len(heap') : heap'[q].freed <= 1
       /\ (\A s \in Bufs : ~strs'[s].live) => \A q \in 1..Len(heap') : heap'[q].freed = 1
      ]_vars

\* a String of two characters has been copy-assigned to another String,
\* which now holds the same characters in an array of its own
C17_Witness ==
    /\ last.op = "copy_assign"
    /\ last.a # last.b
    /\ String_size(TState, last.b) = 2
    /\ abox[last.a].ptr # Null
    /\ abox[last.b].ptr # Null
    /\ abox[last.a].ptr # abox[last.b].ptr
    /\ String_c_string(TState, last.a) = String_c_string(TState, last.b)

\* C18: move-constructing or move-assigning String b into a distinct
\* String a leaves a owning the very array b owned, allocates no array and
\* leaves that array's elements as they were, leaves b's buffer empty with
\* capacity 0, gives a the length and allocated of b, and leaves b's
\* length and allocated as they were.
C18_MoveTransfersBuffer ==
    [][\A a, b \in Bufs :
          (last'.op \in {"move_ctor", "move_assign"} /\ last'.a = a /\ last'.b = b /\ a # b)
          => /\ ~ub'
             /\ Len(heap') = Len(heap)
             /\ abox'[a].ptr = abox[b].ptr
             /\ array_ptr_size([box |-> abox', heap |-> heap', ub |-> ub'], a)
                   = array_ptr_size(AState, b)
             /\ SlotsOf(heap', abox'[a].ptr) = SlotsOf(heap, abox[b].ptr)
             /\ abox'[b].ptr = Null
             /\ array_ptr_size([box |-> abox', heap |-> heap', ub |-> ub'], b) = 0
             /\ strs'[a] = strs[b]
             /\ strs'[b] = strs[b]
      ]_vars

\* ========================================================================
\* exception (except.hpp, except.cpp)
\*   excs[e] : the exception object e: live, the class it was declared
\*             with, and the member message, an array of heap
\* An exception state X is the record [exc, heap, ub].
\* ========================================================================
\* the classes of except.hpp with the class each is derived from, in the
\* order of declaration
Hierarchy ==
    << <<"exception", "">>,
       <<"logic_error", "exception">>,
       <<"invalid_argument", "logic_error">>,
       <<"domain_error", "logic_error">>,
       <<"length_error", "logic_error">>,
       <<"out_of_range", "logic_error">>,
       <<"future_error", "logic_error">>,
       <<"runtime_error", "exception">>,
       <<"range_error", "runtime_error">>,
       <<"overflow_error", "runtime_error">>,
       <<"underflow_error", "runtime_error">>,
       <<"regex_error", "runtime_error">>,
       <<"system_error", "runtime_error">>,
       <<"tx_exception", "runtime_error">>,
       <<"nonexistent_local_time", "runtime_error">>,
       <<"ambiguous_local_time", "runtime_error">>,
       <<"format_error", "runtime_error">>,
       <<"bad_typeid", "exception">>,
       <<"bad_cast", "exception">>,
       <<"bad_optional_access", "exception">>,
       <<"bad_expected_access", "exception">>,
       <<"bad_weak_ptr", "exception">>,
       <<"bad_function_call", "exception">>,
       <<"bad_alloc", "exception">>,
       <<"bad_array_new_length", "bad_alloc">>,
       <<"bad_exception", "exception">>,
       <<"bad_variant_access", "exception">> >>

Kinds == {Hierarchy[i][1] : i \in DOMAIN Hierarchy}

KindIndex(kind) == CHOOSE i \in DOMAIN Hierarchy : Hierarchy[i][1] = kind

\* class kind : public Base(kind)
Base(kind) == Hierarchy[KindIndex(kind)][2]

\* the classes a handler `catch (const h&)` can name to catch an object of
\* class kind: the class and its public bases
RECURSIVE Ancestors(_)
Ancestors(kind) == IF kind = "" THEN {} ELSE {kind} \cup Ancestors(Base(kind))

\* the classes with a public constructor: bad_variant_access declares its
\* constructor without an access specifier, so it is private
Constructible == Kinds \ {"bad_variant_access"}

\* the default argument of the constructor of a class, a string literal of
\* its own; the literal is written here as one character no message of the
\* client contains
DefaultMessage(kind) == <<NulChar + KindIndex(kind)>>

XState == [exc |-> excs, heap |-> heap, ub |-> ub]

\* the C string that starts at p: the characters before the first '\0'
c_string_at(h, p) ==
    LET a == h[p].slots
        n == CHOOSE n \in 0..Len(a) :
                  /\ \A i \in 1..n : a[i] # NulChar
                  /\ n < Len(a) => a[n + 1] = NulChar
    IN SubSeq(a, 1, n)

\* message = new char[len + 1]; strcpy(message, msg) of both constructors
\* and of the copy assignment
new_message(X, e, msg) ==
    LET X1 == [X EXCEPT !.heap = new_array(@, strlen(msg) + 1),
                        !.exc[e].message = Len(X.heap) + 1]
    IN strcpy(X1, X1.exc[e].message, msg)

\* exception::exception(const char* msg), reached through the constructor
\* chain of class kind
exception_ctor_ignores(X, e, kind, msg) ==
    new_message([X EXCEPT !.exc[e] = [live |-> TRUE, kind |-> kind, message |-> Null]], e,
                DefaultMessage("exception"))
exception_ctor(X, e, kind, msg) ==
    LET X1 == [X EXCEPT !.exc[e] = [live |-> TRUE, kind |-> kind, message |-> Null]]
        len == strlen(msg)
        X2 == [X1 EXCEPT !.heap = new_array(@, len + 1), !.exc[e].message = Len(X.heap) + 1]
        X3 == [X2 EXCEPT !.heap[X2.exc[e].message].slots[len + 1] = NulChar]
    IN strcpy(X3, X3.exc[e].message, msg)

\* exception::exception(const exception& other), reached through the
\* implicit copy constructor of the class of other
exception_copy_ctor(X, a, b) ==
    new_message([X EXCEPT !.exc[a] = [live |-> TRUE, kind |-> X.exc[b].kind, message |-> Null]],
                a, c_string_at(X.heap, X.exc[b].message))

\* exception& exception::operator=(const exception& other)
exception_copy_assign(X, a, b) ==
    IF a # b
    THEN new_message([X EXCEPT !.heap = delete_array(@, X.exc[a].message)], a,
                     c_string_at(X.heap, X.exc[b].message))
    ELSE X

\* exception::~exception()
exception_dtor(X, e) ==
    [X EXCEPT !.heap = delete_array(@, X.exc[e].message), !.exc[e] = DeadExc]

\* const char* exception::what() const noexcept
what(X, e) == X.exc[e].message

\* ------------------------------------------------------------------------
\* The client of the exceptions: it constructs object 1 of any class with
\* a message or with the default, copies it into object 2, assigns between
\* them, destroys them, and throws object 1 or 2 at a handler
\*     try { throw e; } catch (const handler& x) { x.what() } catch (...) {}
\* ------------------------------------------------------------------------
ExcStep(X, op, a, kind, given, handler, caught, str) ==
    /\ ~ub
    /\ Len(X.heap) <= MaxArrs
    /\ excs' = X.exc
    /\ heap' = X.heap
    /\ ub' = X.ub
    /\ last' = [op |-> op, a |-> a, kind |-> kind, given |-> given, handler |-> handler,
                caught |-> caught, what |-> str]
    /\ UNCHANGED <<sbox, sobj, scnt, ubox, uobj, vec, appends, abox, strs, prs, vcopy>>

ExcConstruct(kind, msg) ==
    /\ ~excs[1].live
    /\ ~excs[2].live
    /\ ExcStep(exception_ctor(XState, 1, kind, msg), "ctor", 1, kind, msg, "", FALSE, <<>>)

\* kind e;
ExcConstructDefault(kind) ==
    /\ ~excs[1].live
    /\ ~excs[2].live
    /\ ExcStep(exception_ctor(XState, 1, kind, DefaultMessage(kind)), "ctor_default", 1, kind,
               DefaultMessage(kind), "", FALSE, <<>>)

ExcCopyConstruct ==
    /\ excs[1].live
    /\ ~excs[2].live
    /\ ExcStep(exception_copy_ctor(XState, 2, 1), "copy_ctor", 2, excs[1].kind,
               c_string_at(heap, what(XState, 1)), "", FALSE, <<>>)

ExcCopyAssign(a, b) ==
    /\ excs[a].live
    /\ excs[b].live
    /\ ExcStep(exception_copy_assign(XState, a, b), "copy_assign", a, excs[a].kind,
               c_string_at(heap, what(XState, b)), "", FALSE, <<>>)

ExcDestroy(e) ==
    /\ excs[e].live
    /\ e = 1 => ~excs[2].live
    /\ ExcStep(exception_dtor(XState, e), "dtor", e, excs[e].kind, <<>>, "", FALSE, <<>>)

\* the object thrown is a copy of e, held here in excs[e]'s place while the
\* handler runs and destroyed after it
ExcThrow(e, handler) ==
    /\ excs[e].live
    /\ LET thrown == exception_copy_ctor(XState, e, e)
       caught == handler \in Ancestors(excs[e].kind)
           str == IF caught /\ ~thrown.ub THEN c_string_at(thrown.heap, what(thrown, e))
                  ELSE <<>>
           X2 == [thrown EXCEPT !.heap = delete_array(@, thrown.exc[e].message),
                                !.exc[e] = excs[e]]
       IN ExcStep(X2, "throw", e, excs[e].kind, c_string_at(heap, what(XState, e)), handler,
                  caught, str)

InitExc ==
    /\ NoShared
    /\ NoUnique
    /\ NoVector
    /\ NoBuffers
    /\ NoExceptions
    /\ NoPairs
    /\ NoCopy
    /\ last = [op |-> "init", a |-> Null, kind |-> "", given |-> <<>>, handler |-> "",
               caught |-> FALSE, what |-> <<>>]

NextExc ==
    \/ \E kind \in Constructible, msg \in CStrings : ExcConstruct(kind, msg)
    \/ \E kind \in Constructible : ExcConstructDefault(kind)
    \/ ExcCopyConstruct
    \/ \E a, b \in Bufs : ExcCopyAssign(a, b)
    \/ \E e \in Bufs : ExcDestroy(e)
    \/ \E e \in Bufs, handler \in Kinds : ExcThrow(e, handler)

SpecExc == InitExc /\ [][NextExc]_vars

\* ------------------------------------------------------------------------
\* Claims about the exceptions
\* ------------------------------------------------------------------------
\* C32: every class of the hierarchy is caught by a handler for the class
\* itself, for each class it derives from and for cslt::exception
\* (out_of_range: by out_of_range, logic_error and exception); what() gives
\* the message the object was constructed with, the default message of its
\* class when none was given; a copy gives the message of its source, and
\* so does the object a handler receives.
C32_CaughtWithMessage ==
    /\ \A kind \in Kinds : {kind, "exception"} \subseteq Ancestors(kind)
    /\ Ancestors("out_of_range") = {"out_of_range", "logic_error", "exception"}
    /\ ~ub
    /\ \A e \in Bufs : excs[e].live => heap[what(XState, e)].freed = 0
    /\ last.op \in {"ctor", "ctor_default", "copy_ctor", "copy_assign"}
          => c_string_at(heap, what(XState, last.a)) = last.given
    /\ last.op = "ctor_default"
          => c_string_at(heap, what(XState, last.a)) = DefaultMessage(excs[last.a].kind)
    /\ last.op = "throw"
          => /\ last.handler \in {last.kind, Base(last.kind), "exception"} => last.caught
             /\ last.caught => last.what = last.given
             /\ last.given = c_string_at(heap, what(XState, last.a))

\* an out_of_range constructed with a message of two characters was thrown
\* and caught as a logic_error, which read that message
C32_Witness ==
    /\ last.op = "throw"
    /\ last.kind = "out_of_range"
    /\ last.handler = "logic_error"
    /\ last.caught
    /\ Len(last.what) = 2
    /\ last.what = c_string_at(heap, what(XState, last.a))

\* ========================================================================
\* swap and pair (util.hpp)
\*   prs : the two pair objects p = prs[1] and q = prs[2] of the client, each
\*         with the members first and second
\* ========================================================================
\* pair(const A& first_val, const B& second_val)
pair(first_val, second_val) == [first |-> first_val, second |-> second_val]

\* pair& operator=(const pair& other), as the pair assigned to
pair_assign(p, other, same) == IF ~same THEN pair(other.first, other.second) ELSE p

\* void pair::swap(pair& pr): the two pairs afterwards
pair_swap(p, pr) ==
    LET fs == swap(p.first, pr.first)
        ss == swap(p.second, pr.second)
    IN <<pair(fs[1], ss[1]), pair(fs[2], ss[2])>>

\* make_pair(first_val, second_val)
make_pair(first_val, second_val) == pair(first_val, second_val)

UtilStep(P, op) ==
    /\ prs' = P
    /\ last' = [op |-> op, pre |-> prs]
    /\ UNCHANGED <<sbox, sobj, scnt, ubox, uobj, heap, vec, appends, abox, strs, ub, excs,
                   vcopy>>

\* cslt::swap(p.first, q.first)
UtilSwapFirst ==
    LET r == swap(prs[1].first, prs[2].first)
    IN UtilStep(<<[prs[1] EXCEPT !.first = r[1]], [prs[2] EXCEPT !.first = r[2]]>>, "swap")

\* cslt::swap(p.first, p.first): both parameters are the same variable
UtilSwapSame ==
    LET r == swap(prs[1].first, prs[1].first)
    IN UtilStep(<<[prs[1] EXCEPT !.first = r[2]], prs[2]>>, "swap_same")

\* p.swap(q)
UtilPairSwap == UtilStep(pair_swap(prs[1], prs[2]), "pair_swap")

\* p = q
UtilPairAssign == UtilStep(<<pair_assign(prs[1], prs[2], FALSE), prs[2]>>, "pair_assign")

\* q = make_pair(x, y)
UtilMakePair(x, y) == UtilStep(<<prs[1], pair_assign(prs[2], make_pair(x, y), FALSE)>>, "make_pair")

InitUtil ==
    /\ NoShared
    /\ NoUnique
    /\ NoVector
    /\ NoBuffers
    /\ NoExceptions
    /\ NoCopy
    /\ \E a, b, c, d \in Values : prs = <<pair(a, b), pair(c, d)>>
    /\ last = [op |-> "init", pre |-> prs]

NextUtil ==
    \/ UtilSwapFirst
    \/ UtilSwapSame
    \/ UtilPairSwap
    \/ UtilPairAssign
    \/ \E x, y \in Values : UtilMakePair(x, y)

SpecUtil == InitUtil /\ [][NextUtil]_vars

\* C33: swap(a, b) leaves a with the value b had and b with the value a
\* had; pair::swap exchanges first with first and second with second; either
\* swap applied a second time gives back the values there were.
C33_SwapExchanges ==
    /\ last.op = "swap"
          => /\ prs[1].first = last.pre[2].first
             /\ prs[2].first = last.pre[1].first
             /\ prs[1].second = last.pre[1].second
             /\ prs[2].second = last.pre[2].second
             /\ swap(prs[1].first, prs[2].first) = <<last.pre[1].first, last.pre[2].first>>
    /\ last.op = "pair_swap"
          => /\ prs[1] = last.pre[2]
             /\ prs[2] = last.pre[1]
             /\ pair_swap(prs[1], prs[2]) = last.pre

\* two pairs that differ in both members have been swapped
C33_Witness ==
    /\ last.op = "pair_swap"
    /\ last.pre[1].first # last.pre[2].first
    /\ last.pre[1].second # last.pre[2].second
    /\ last.pre[1].first # last.pre[1].second
    /\ prs = <<last.pre[2], last.pre[1]>>

\* ========================================================================
\* Assignment of an object to itself (memory.hpp)
\* The client uses one of unique_ptr, shared_ptr and array_ptr: it
\* constructs objects of that class and assigns them, each also to itself.
\* ========================================================================
SelfSharedConstruct(b, fresh) ==
    /\ NoUnique
    /\ NoVector
    /\ NoBuffers
    /\ SharedConstruct(b, fresh)

SelfUniqueConstruct(b, fresh) ==
    /\ NoShared
    /\ NoVector
    /\ NoBuffers
    /\ UniqueConstruct(b, fresh)

SelfArrConstruct(b, buff) ==
    /\ NoShared
    /\ NoUnique
    /\ ArrConstruct(b, buff)

InitSelf == InitUnique

NextSelf ==
    \/ \E b \in Boxes, fresh \in BOOLEAN : SelfSharedConstruct(b, fresh)
    \/ \E a, b \in Boxes : SharedCopyConstruct(a, b)
    \/ \E a, b \in Boxes : SharedCopyAssign(a, b)
    \/ \E a, b \in Boxes : SharedMoveAssign(a, b)
    \/ \E b \in Boxes, fresh \in BOOLEAN : SelfUniqueConstruct(b, fresh)
    \/ \E a, b \in Boxes : UniqueMoveAssign(a, b)
    \/ \E b \in Bufs, buff \in 0..MaxLen : SelfArrConstruct(b, buff)
    \/ \E b \in Bufs, index \in 0..MaxLen, value \in Values : ArrWrite(b, index, value)
    \/ \E a, b \in Bufs : ArrCopyAssign(a, b)
    \/ \E a, b \in Bufs : ArrMoveAssign(a, b)

SpecSelf == InitSelf /\ [][NextSelf]_vars

\* C36: a move assignment of a unique_ptr, shared_ptr or array_ptr to itself
\* and a copy assignment of a shared_ptr or array_ptr to itself change no
\* box, no counter, no array and no delete count, and allocate nothing.
C36_SelfAssignIsNoOp ==
    [][(last'.op \in {"copy_assign", "move_assign"} /\ last'.a = last'.b)
          => UNCHANGED <<sbox, sobj, scnt, ubox, uobj, abox, heap, ub>>
      ]_vars

\* a unique_ptr that owns an object was move-assigned to itself and still
\* owns it, not freed
C36_Witness ==
    /\ last.op = "move_assign"
    /\ last.a = last.b
    /\ ubox[last.a].live
    /\ ubox[last.a].ptr # Null
    /\ uobj[ubox[last.a].ptr].freed = 0

====
